---- MODULE Spec2Model ----
(***************************************************************************)
(* Verification model of the synchronisation primitives of go-concert:     *)
(* the channel based Mutex (package unison), the keyed, reference counted   *)
(* LockManager with its ManagedLock handles and LockSessions, the          *)
(* Waitlist of Waiters, and the TaskGroup on top of the SafeWaitGroup.     *)
(*                                                                         *)
(* Every goroutine is a process with a program counter.  A step is one     *)
(* atomic operation of the Go program: a channel send or receive, an       *)
(* atomic load or store, or a critical section of a sync.Mutex that        *)
(* contains no blocking operation and touches only state guarded by that   *)
(* lock.                                                                   *)
(***************************************************************************)
EXTENDS Integers, Sequences, FiniteSets, TLC

\* ------------------------------------------------------------------ bounds
NumClients == 2
NumHandles == 2
NumForcers == 1
MaxForceCalls == 1
MaxWaiters == 3
MaxWaits == 2
MaxTasks == 3
MaxRuns == 2
NumCallers == 1
ErrorCap == 3
MaxRefCalls == 7
NumSwProcs == 2
MaxUnits == 2
NumCellProcs == 2
MaxSets == 2
MaxChans == 2
NumCancellers == 2

None == 0

Keys == {"k1", "k2"}

VARIABLES
  mtx,        \* the channel of the Mutex under test (Mutex.ch)
  cli,        \* the goroutines using that Mutex
  mu,         \* LockManager.mu is locked
  table,      \* LockManager.table: key -> entry (None: no entry)
  ent,        \* the lockEntry objects
  ses,        \* the LockSession objects
  hnd,        \* the ManagedLock handles, each used by one goroutine
  frc,        \* goroutines calling ForceUnlock / ForceUnlockAll
  forceCalls, \* number of ForceUnlock / ForceUnlockAll calls made
  wl,         \* the Waitlist under test (head, tail)
  wtr,        \* the Waiter objects
  wcall,      \* the last call made on the Waitlist or one of its Waiters,
              \* with the state its Waiter was in before and how it ended
  wgo,        \* per Waiter, the goroutine waiting on it (Wait, WaitContext, ...)
  tg,         \* the TaskGroup under test: configuration, source, errors
  tsk,        \* the tasks submitted to it by Go
  tcl,        \* the goroutines calling Stop and Wait on it
  swg,        \* the SafeWaitGroup under test: closed, counter of its WaitGroup
  swp,        \* the goroutines calling Add, Done, Close and Wait on it
  rc,         \* the RefCount under test: counter, calls made, how the last call ended
  cell,       \* the Cell under test: its fields and the channels made for it
  cwt,        \* the goroutines calling Wait on it
  lmu,        \* the goroutine holding Waitlist.mu (None: unlocked), where the lock is modelled
  wcb         \* the goroutines calling Cancel on Waiters with an onCancel callback

mxVars == <<mtx, cli>>
lmVars == <<mu, table, ent, ses, hnd, frc, forceCalls>>
wlVars == <<wl, wtr, wcall, wgo>>
tgVars == <<tg, tsk, tcl>>
swVars == <<swg, swp>>
rcVars == <<rc>>
clVars == <<cell, cwt>>
cbVars == <<lmu, wcb>>
vars == <<mtx, cli, mu, table, ent, ses, hnd, frc, forceCalls, wl, wtr, wcall, wgo,
         tg, tsk, tcl,
         swg, swp,
         rc,
         cell, cwt,
         lmu, wcb>>

\* no Waitlist under test
WLIdle == wl = <<>> /\ wtr = <<>> /\ wcall = <<>> /\ wgo = <<>>

\* no TaskGroup under test
TGIdle == tg = <<>> /\ tsk = <<>> /\ tcl = <<>>

\* no goroutine cancelling Waiters that have an onCancel callback
CBIdle == lmu = <<>> /\ wcb = <<>>

\* no Cell under test
CLIdle == cell = <<>> /\ cwt = <<>>

\* no RefCount under test
RCIdle == rc = <<>>

\* no SafeWaitGroup under test
SWIdle == swg = <<>> /\ swp = <<>>

\* ------------------------------------------------- Mutex: the handoff buffer
\* A Go channel of struct{}: only the number of buffered tokens matters.
\* The zero value of Mutex has a nil channel, on which send and receive block.
MutexCap == 1

NilChan == [nil |-> TRUE, len |-> 0]

MakeMutex == [nil |-> FALSE, len |-> MutexCap]

ChanRecvReady(ch) == ~ch.nil /\ ch.len > 0

ChanSendReady(ch) == ~ch.nil /\ ch.len < MutexCap

ChanRecv(ch) == [ch EXCEPT !.len = @ - 1]

ChanSend(ch) == [ch EXCEPT !.len = @ + 1]

\* The outcomes one Mutex call can have on channel ch, as pairs
\* <<channel after, outcome>>; the empty set means the call blocks.
\* "timer" is LockTimeout's timer firing before the receive.
MutexLock(ch) ==
  IF ChanRecvReady(ch) THEN {<<ChanRecv(ch), "acquired">>} ELSE {}

\* TryLock without the default branch of its select
MutexTryLockNoDefault(ch) == MutexLock(ch)

\* select { case <-c.ch: true; default: false }
MutexTryLock(ch) ==
  IF ChanRecvReady(ch) THEN {<<ChanRecv(ch), "acquired">>} ELSE {<<ch, "failed">>}

\* LockTimeout that reports failure as soon as its timer fires
MutexLockTimeoutNoRetry(ch, dur) ==
  IF dur = 0 THEN MutexTryLock(ch)
  ELSE IF dur < 0 THEN MutexLock(ch)
  ELSE MutexLock(ch) \cup {<<ch, "failed">>}

\* the switch on duration and, for duration > 0, the outer select
MutexLockTimeout(ch, dur) ==
  IF dur = 0 THEN MutexTryLock(ch)
  ELSE IF dur < 0 THEN MutexLock(ch)
  ELSE MutexLock(ch) \cup {<<ch, "timer">>}

\* LockTimeout whose inner select reports success in its default branch too
MutexLockTimeoutExpiredNoDefault(ch) ==
  {<<IF ChanRecvReady(ch) THEN ChanRecv(ch) ELSE ch, "acquired">>}

\* the inner select of LockTimeout, taken after the timer has fired
MutexLockTimeoutExpired(ch) ==
  IF ChanRecvReady(ch) THEN {<<ChanRecv(ch), "acquired">>} ELSE {<<ch, "failed">>}

\* LockContext that does not watch the source's Done channel
MutexLockContextIgnoresDone(ch, cancelled) == MutexLock(ch)

\* cancelled: the source's Done channel is closed; "failed" is the return of
\* context.Err()
MutexLockContext(ch, cancelled) ==
  MutexLock(ch) \cup (IF cancelled THEN {<<ch, "failed">>} ELSE {})

\* Unlock that returns without putting the token back
MutexUnlockKeepsToken(ch) == {<<ch, "released">>}

MutexUnlock(ch) ==
  IF ChanSendReady(ch) THEN {<<ChanSend(ch), "released">>} ELSE {}

AcquireOps == {"Lock", "TryLock", "LockTimeout", "LockContext"}

Durations == {-1, 0, 1}

MutexCall(ch, op, dur, cancelled) ==
  CASE op = "Lock" -> MutexLock(ch)
    [] op = "TryLock" -> MutexTryLock(ch)
    [] op = "LockTimeout" -> MutexLockTimeout(ch, dur)
    [] op = "LockTimeoutExpired" -> MutexLockTimeoutExpired(ch)
    [] op = "LockContext" -> MutexLockContext(ch, cancelled)
    [] op = "Unlock" -> MutexUnlock(ch)

\* ------------------------------------------------- Mutex: its callers
Clients == 1..NumClients

ClientIdle == [pc |-> "idle", op |-> "none", dur |-> 0, ctx |-> FALSE,
               holds |-> FALSE, res |-> "none"]

MxInit ==
  /\ mtx = MakeMutex
  /\ cli = [c \in Clients |-> ClientIdle]

MxIdle == mtx = NilChan /\ cli = <<>>

MxFrame == UNCHANGED <<lmVars, wlVars, tgVars, swVars, rcVars, clVars, cbVars>>

\* a goroutine that does not hold the mutex calls an acquire variant
ClientCall(c, op, dur) ==
  /\ cli[c].pc = "idle"
  /\ ~cli[c].holds
  /\ cli' = [cli EXCEPT ![c] = [pc |-> "wait", op |-> op, dur |-> dur,
                                ctx |-> FALSE, holds |-> FALSE, res |-> "none"]]
  /\ UNCHANGED mtx
  /\ MxFrame

\* the source of a pending LockContext is cancelled (before or while the
\* call waits in its select)
ClientCancel(c) ==
  /\ cli[c].pc = "wait"
  /\ cli[c].op = "LockContext"
  /\ ~cli[c].ctx
  /\ cli' = [cli EXCEPT ![c].ctx = TRUE]
  /\ UNCHANGED mtx
  /\ MxFrame

\* the select (or plain receive) of the pending call takes one of its branches
ClientStep(c) ==
  /\ cli[c].pc = "wait"
  /\ cli[c].op \in AcquireOps \cup {"LockTimeoutExpired"}
  /\ \E o \in MutexCall(mtx, cli[c].op, cli[c].dur, cli[c].ctx) :
       /\ mtx' = o[1]
       /\ cli' = [cli EXCEPT ![c] =
            CASE o[2] = "acquired" ->
                   [@ EXCEPT !.pc = "idle", !.holds = TRUE, !.res = "ok"]
              [] o[2] = "failed" ->
                   [@ EXCEPT !.pc = "idle", !.res = "fail"]
              [] o[2] = "timer" ->
                   [@ EXCEPT !.op = "LockTimeoutExpired"]]
  /\ MxFrame

\* the holder calls Unlock
ClientUnlockCall(c) ==
  /\ cli[c].pc = "idle"
  /\ cli[c].holds
  /\ cli' = [cli EXCEPT ![c] = [@ EXCEPT !.pc = "wait", !.op = "Unlock", !.dur = 0,
                                         !.ctx = FALSE, !.res = "none"]]
  /\ UNCHANGED mtx
  /\ MxFrame

ClientUnlockStep(c) ==
  /\ cli[c].pc = "wait"
  /\ cli[c].op = "Unlock"
  /\ \E o \in MutexCall(mtx, "Unlock", 0, FALSE) :
       /\ mtx' = o[1]
       /\ cli' = [cli EXCEPT ![c] = [@ EXCEPT !.pc = "idle", !.holds = FALSE, !.res = "ok"]]
  /\ MxFrame

LMIdle ==
  /\ mu = FALSE
  /\ table = <<>>
  /\ ent = <<>>
  /\ ses = <<>>
  /\ hnd = <<>>
  /\ frc = <<>>
  /\ forceCalls = 0

MxNext ==
  \/ \E c \in Clients, op \in AcquireOps :
       \E dur \in (IF op = "LockTimeout" THEN Durations ELSE {0}) :
         ClientCall(c, op, dur)
  \/ \E c \in Clients : ClientCancel(c)
  \/ \E c \in Clients : ClientStep(c)
  \/ \E c \in Clients : ClientUnlockCall(c)
  \/ \E c \in Clients : ClientUnlockStep(c)

\* a Mutex made by MakeMutex and its callers; no LockManager
MutexInit == MxInit /\ LMIdle /\ WLIdle /\ TGIdle /\ SWIdle /\ RCIdle /\ CLIdle /\ CBIdle

SpecMutex == MutexInit /\ [][MxNext]_vars

\* C2: a Mutex made by MakeMutex always satisfies holders + tokens = 1, so no
\* interleaving of Lock, TryLock, LockTimeout, LockContext and Unlock by the
\* holder lets two callers hold the mutex at once.
MutexHolders == {c \in Clients : cli[c].holds}

C2_OneHolderOrToken == Cardinality(MutexHolders) + mtx.len = 1

\* a caller holds the mutex after a LockTimeout whose timer had fired while
\* another caller is waiting for it
C2_Witness ==
  \E c, d \in Clients :
    /\ cli[c].holds /\ cli[c].op = "LockTimeoutExpired" /\ cli[c].res = "ok"
    /\ cli[d].pc = "wait" /\ cli[d].op = "Lock"

\* ------------------------------------------------- Mutex: any use
\* The zero value of Mutex (var m Mutex) next to MakeMutex(), and callers that
\* also call Unlock without holding the mutex.
MxAnyInit ==
  /\ mtx \in {MakeMutex, NilChan}
  /\ cli = [c \in Clients |-> ClientIdle]

\* a goroutine that does not hold the mutex calls Unlock
ClientUnlockCallUnheld(c) ==
  /\ cli[c].pc = "idle"
  /\ ~cli[c].holds
  /\ cli' = [cli EXCEPT ![c] = [@ EXCEPT !.pc = "wait", !.op = "Unlock", !.dur = 0,
                                         !.ctx = FALSE, !.res = "none"]]
  /\ UNCHANGED mtx
  /\ MxFrame

MxAnyNext ==
  \/ MxNext
  \/ \E c \in Clients : ClientUnlockCallUnheld(c)

MutexAnyInit == MxAnyInit /\ LMIdle /\ WLIdle /\ TGIdle /\ SWIdle /\ RCIdle /\ CLIdle /\ CBIdle

SpecMutexAny == MutexAnyInit /\ [][MxAnyNext]_vars

\* ------------------------------------------------- RefCount
\* RefCount.count is a uint32.  It is kept here in its two's complement
\* reading (u < 2^31 as u, otherwise u - 2^32), which is one-to-one on 32 bit
\* words and turns atomic.AddUint32's wrap-around into the sign change below.
Int32Max == 2147483647

Int32Min == -2147483647 - 1

\* ^uint32(0)
RefCountFree == -1

\* refCountFree - 1
RefCountOops == -2

\* atomic.AddUint32(&c.count, 1)
RefCountRetain(x) == IF x = Int32Max THEN Int32Min ELSE x + 1

\* Retain panics ("retaining released ref count") when the new count is 0
RefCountRetainPanics(x) == RefCountRetain(x) = 0

\* atomic.AddUint32(&c.count, ^uint32(0))
RefCountRelease(x) == IF x = Int32Min THEN Int32Max ELSE x - 1

\* a Release that reports true when the count reaches zero
RefCountReleaseFreeAtZero(x) == RefCountRelease(x) = 0

\* Release reports true when the count has reached the free state
RefCountReleaseFree(x) == RefCountRelease(x) = RefCountFree

\* Release panics ("ref count released too often") one step below free
RefCountReleasePanics(x) == RefCountRelease(x) = RefCountOops

\* ------------------------------------------------- LockManager: objects
Handles == 1..NumHandles

Forcers == 1..NumForcers

\* Heap objects are named by numbers.  An object that nothing refers to any
\* more is reclaimed by the garbage collector and its number is handed out
\* again, so these ranges only have to cover the objects alive at one time.
EntryIds == 1..(NumHandles + NumForcers + Cardinality(Keys))

SessionIds == 1..(NumHandles + NumHandles + NumForcers + Cardinality(Keys))

NullEntry == [session |-> None, muInternal |-> FALSE, mutex |-> NilChan,
              key |-> "", ref |-> 0, owner |-> None]

NullSession == [isLocked |-> FALSE, done |-> FALSE, unlocked |-> FALSE,
                lost |-> FALSE, key |-> ""]

\* newLockSession; key records the key the session was created for
newLockSession(k) == [isLocked |-> TRUE, done |-> FALSE, unlocked |-> FALSE,
                      lost |-> FALSE, key |-> k]

\* the lockEntry literal of createEntry: a zero RefCount counts one reference;
\* owner records which handle received the Mutex token last (None: nobody
\* since the token was put back)
newLockEntry(k) == [session |-> None, muInternal |-> FALSE, mutex |-> MakeMutex,
                    key |-> k, ref |-> 0, owner |-> None]

\* newManagedLock
newManagedLock(k) == [pc |-> "idle", op |-> "none", dur |-> 0, key |-> k,
                      session |-> None, entry |-> None, res |-> "none",
                      fin |-> FALSE]

NoHandle == [pc |-> "new", op |-> "none", dur |-> 0, key |-> "",
             session |-> None, entry |-> None, res |-> "none", fin |-> FALSE]

ForcerIdle == [pc |-> "idle", op |-> "none", key |-> "", entry |-> None,
               session |-> None, todo |-> {}, res |-> "none"]

FreshId(ids, used) == CHOOSE i \in ids \ used : \A j \in ids \ used : i <= j

EntriesInUse(t, h, f) ==
  ({t[k] : k \in Keys} \cup {h[i].entry : i \in Handles}
     \cup {f[i].entry : i \in Forcers}) \ {None}

SessionsInUse ==
  ({ent[e].session : e \in EntryIds} \cup {hnd[i].session : i \in Handles}
     \cup {frc[i].session : i \in Forcers}) \ {None}

\* the garbage collector: entries nothing refers to are gone
Collect(e, t, h, f) ==
  [i \in EntryIds |-> IF i \in EntriesInUse(t, h, f) THEN e[i] ELSE NullEntry]

LMInit ==
  /\ mu = FALSE
  /\ table = [k \in Keys |-> None]
  /\ ent = [e \in EntryIds |-> NullEntry]
  /\ ses = [s \in SessionIds |-> NullSession]
  /\ hnd = [h \in Handles |-> NoHandle]
  /\ frc = [f \in Forcers |-> ForcerIdle]
  /\ forceCalls = 0

LMFrame == UNCHANGED <<mxVars, wlVars, tgVars, swVars, rcVars, clVars, cbVars>>

\* ------------------------------------------------- LockManager: table
\* findEntry: the entry of the key (None when the table has none)
findEntry(key) == table[key]

\* releaseEntry, run under LockManager.mu: the entries and the table after
\* entry.ref.Release() and the delete it may cause
releaseEntryEnt(e) == [ent EXCEPT ![e].ref = RefCountRelease(@)]

\* a releaseEntry that deletes the entry whatever Release returns
releaseEntryTableAlways(e) == [table EXCEPT ![ent[e].key] = None]

\* the table after releaseEntry
releaseEntryTable(e) ==
  IF RefCountReleaseFree(ent[e].ref)
    THEN [table EXCEPT ![ent[e].key] = None]
    ELSE table

\* ManagedLock.IsLocked
IsLocked(h) == hnd[h].session # None /\ ses[hnd[h].session].isLocked

\* an acquire that does not check for an active session
checkNoActiveLockSessionOff(s) == TRUE

\* checkNoActiveLockSession: the invariant holds
checkNoActiveLockSession(s) == s = None

\* checkActiveLockSession: the invariant holds
checkActiveLockSession(s) == s # None

\* ------------------------------------------------- ManagedLock: acquire
\* LockManager.Access
Access(h, k) ==
  /\ hnd[h].pc = "new"
  /\ hnd' = [hnd EXCEPT ![h] = newManagedLock(k)]
  /\ UNCHANGED <<mu, table, ent, ses, frc, forceCalls>>
  /\ LMFrame

\* Lock / TryLock / LockTimeout / LockContext up to the session check
CallAcquire(h, op, dur) ==
  /\ hnd[h].pc = "idle"
  /\ IF checkNoActiveLockSession(hnd[h].session)
       THEN hnd' = [hnd EXCEPT ![h] = [@ EXCEPT !.pc = "link", !.op = op,
                                                !.dur = dur, !.res = "none"]]
       ELSE hnd' = [hnd EXCEPT ![h].res = "panic: active lock session"]
  /\ UNCHANGED <<mu, table, ent, ses, frc, forceCalls>>
  /\ LMFrame

\* ml.link(true): findOrCreate under LockManager.mu
Link(h) ==
  /\ hnd[h].pc = "link"
  /\ ~mu
  /\ LET key == hnd[h].key
         found == findEntry(key)
         fresh == FreshId(EntryIds, EntriesInUse(table, hnd, frc))
     IN IF hnd[h].entry # None
          THEN /\ hnd' = [hnd EXCEPT ![h].pc = "mutex"]
               /\ UNCHANGED <<table, ent>>
        ELSE IF found # None
          THEN /\ ent' = [ent EXCEPT ![found].ref = RefCountRetain(@)]
               /\ IF RefCountRetainPanics(ent[found].ref)
                    THEN hnd' = [hnd EXCEPT ![h] = [@ EXCEPT !.pc = "idle",
                                         !.op = "none", !.dur = 0,
                                         !.res = "panic: retaining released ref count"]]
                    ELSE hnd' = [hnd EXCEPT ![h] = [@ EXCEPT !.pc = "mutex",
                                                             !.entry = found]]
               /\ UNCHANGED table
        ELSE /\ ent' = [ent EXCEPT ![fresh] = newLockEntry(key)]
             /\ table' = [table EXCEPT ![key] = fresh]
             /\ hnd' = [hnd EXCEPT ![h] = [@ EXCEPT !.pc = "mutex", !.entry = fresh]]
  /\ UNCHANGED <<mu, ses, frc, forceCalls>>
  /\ LMFrame

\* the call on the entry's Mutex takes one of its branches; the source of
\* LockContext may be cancelled at any time
AcquireMutex(h) ==
  /\ hnd[h].pc = "mutex"
  /\ LET e == hnd[h].entry
     IN \E cancelled \in BOOLEAN :
          \E o \in MutexCall(ent[e].mutex, hnd[h].op, hnd[h].dur, cancelled) :
            /\ ent' = [ent EXCEPT ![e] = [@ EXCEPT !.mutex = o[1],
                         !.owner = IF o[2] = "acquired" THEN h ELSE @]]
            /\ hnd' = [hnd EXCEPT ![h] =
                 CASE o[2] = "acquired" -> [@ EXCEPT !.pc = "mark", !.dur = 0]
                   [] o[2] = "failed" -> [@ EXCEPT !.pc = "unlink", !.dur = 0]
                   [] o[2] = "timer" -> [@ EXCEPT !.pc = "expired", !.dur = 0]]
  /\ UNCHANGED <<mu, table, ses, frc, forceCalls>>
  /\ LMFrame

\* LockTimeout after its timer fired: the last non-blocking attempt
AcquireExpired(h) ==
  /\ hnd[h].pc = "expired"
  /\ LET e == hnd[h].entry
     IN \E o \in MutexCall(ent[e].mutex, "LockTimeoutExpired", 0, FALSE) :
          /\ ent' = [ent EXCEPT ![e] = [@ EXCEPT !.mutex = o[1],
                       !.owner = IF o[2] = "acquired" THEN h ELSE @]]
          /\ hnd' = [hnd EXCEPT ![h].pc =
               IF o[2] = "acquired" THEN "mark" ELSE "unlink"]
  /\ UNCHANGED <<mu, table, ses, frc, forceCalls>>
  /\ LMFrame

\* markLocked, first half: session := newLockSession(); ml.session = session
MarkSession(h) ==
  /\ hnd[h].pc = "mark"
  /\ LET s == FreshId(SessionIds, SessionsInUse)
     IN /\ ses' = [ses EXCEPT ![s] = newLockSession(hnd[h].key)]
        /\ hnd' = [hnd EXCEPT ![h] = [@ EXCEPT !.pc = "mark_entry", !.session = s]]
  /\ UNCHANGED <<mu, table, ent, frc, forceCalls>>
  /\ LMFrame

\* what the acquire variant reports once markLocked is through; LockTimeout
\* still has to evaluate ml.IsLocked()
AfterMarkLocked(op) == IF op = "LockTimeout" THEN "is_locked" ELSE "idle"

\* markLocked, second half: entry.session = session under muInternal, and
\* the finalizer is set
MarkEntry(h) ==
  /\ hnd[h].pc = "mark_entry"
  /\ LET e == hnd[h].entry
     IN /\ ~ent[e].muInternal
        /\ ent' = [ent EXCEPT ![e].session = hnd[h].session]
        /\ hnd' = [hnd EXCEPT ![h] =
             IF AfterMarkLocked(hnd[h].op) = "idle"
               THEN [@ EXCEPT !.pc = "idle", !.op = "none", !.fin = TRUE, !.res = "ok"]
               ELSE [@ EXCEPT !.pc = AfterMarkLocked(hnd[h].op), !.fin = TRUE]]
  /\ UNCHANGED <<mu, table, ses, frc, forceCalls>>
  /\ LMFrame

\* LockTimeout's second result: return ml.markLocked(), ml.IsLocked()
ReturnIsLocked(h) ==
  /\ hnd[h].pc = "is_locked"
  /\ hnd' = [hnd EXCEPT ![h] = [@ EXCEPT !.pc = "idle", !.op = "none",
                                         !.res = IF IsLocked(h) THEN "ok" ELSE "fail"]]
  /\ UNCHANGED <<mu, table, ent, ses, frc, forceCalls>>
  /\ LMFrame

\* ml.unlink(): drop the handle's reference under LockManager.mu.  done is
\* the handle when unlink returns, panicked the handle when releaseEntry
\* panics.
unlink(h, done, panicked) ==
  /\ ~mu
  /\ LET e == hnd[h].entry
     IN IF e = None
          THEN /\ hnd' = [hnd EXCEPT ![h] = done]
               /\ UNCHANGED <<table, ent>>
          ELSE /\ hnd' = [hnd EXCEPT ![h] =
                    [(IF RefCountReleasePanics(ent[e].ref) THEN panicked ELSE done)
                       EXCEPT !.entry = None]]
               /\ table' = releaseEntryTable(e)
               /\ ent' = Collect(releaseEntryEnt(e), table', hnd', frc)

\* a failed TryLock / LockTimeout / LockContext: ml.unlink(); return nil, false
UnlinkFailed(h) ==
  /\ hnd[h].pc = "unlink"
  /\ unlink(h, [hnd[h] EXCEPT !.pc = "idle", !.op = "none", !.res = "fail"],
               [hnd[h] EXCEPT !.pc = "idle", !.op = "none",
                              !.res = "panic: ref count released too often"])
  /\ UNCHANGED <<mu, ses, frc, forceCalls>>
  /\ LMFrame

\* ------------------------------------------------- LockSession signals
\* doUnlock that forgets to clear the locked flag
sessionStoreMissing(s) == ses

\* doUnlock that forgets to close Done
sessionCloseDoneMissing(s) == ses

\* LockSession.doUnlock(kind) is three atomic operations in a row
\* s.isLocked.Store(false)
sessionStore(s) == [ses EXCEPT ![s].isLocked = FALSE]

\* kind.Close(): sync.Once makes a second Close a no-op
sessionClose(s, kind) ==
  IF kind = "unlocked" THEN [ses EXCEPT ![s].unlocked = TRUE]
  ELSE [ses EXCEPT ![s].lost = TRUE]

\* s.done.Close()
sessionCloseDone(s) == [ses EXCEPT ![s].done = TRUE]

\* ------------------------------------------------- ManagedLock: Unlock
\* Unlock up to doUnlock's entry.muInternal.Lock(): it panics without a
\* session, and on a handle without entry (nil pointer dereference)
CallUnlock(h) ==
  /\ hnd[h].pc = "idle"
  /\ hnd' = [hnd EXCEPT ![h] =
       IF ~checkActiveLockSession(hnd[h].session)
         THEN [@ EXCEPT !.res = "panic: no active lock session"]
       ELSE IF hnd[h].entry = None
         THEN [@ EXCEPT !.res = "panic: nil pointer dereference"]
       ELSE [@ EXCEPT !.pc = "u_enter", !.op = "Unlock", !.res = "none"]]
  /\ UNCHANGED <<mu, table, ent, ses, frc, forceCalls>>
  /\ LMFrame

\* doUnlock that does not compare the sessions
doUnlockMatchesAlways(h) == TRUE

\* doUnlock compares the handle's session with the one the entry records
doUnlockMatches(h) == hnd[h].session = ent[hnd[h].entry].session

\* doUnlock under muInternal, up to the Mutex release
UnlockEnter(h) ==
  /\ hnd[h].pc = "u_enter"
  /\ LET e == hnd[h].entry
         s == hnd[h].session
     IN /\ ~ent[e].muInternal
        /\ IF doUnlockMatches(h)
             THEN IF ses[s].isLocked
                    THEN /\ ent' = [ent EXCEPT ![e] = [@ EXCEPT !.session = None,
                                                                !.muInternal = TRUE]]
                         /\ hnd' = [hnd EXCEPT ![h].pc = "u_mutex"]
                    ELSE /\ ent' = [ent EXCEPT ![e].session = None]
                         /\ hnd' = [hnd EXCEPT ![h].pc = "u_store"]
             ELSE /\ UNCHANGED ent
                  /\ hnd' = [hnd EXCEPT ![h].pc = "u_store"]
  /\ UNCHANGED <<mu, table, ses, frc, forceCalls>>
  /\ LMFrame

\* entry.Unlock() and entry.muInternal.Unlock()
UnlockMutex(h) ==
  /\ hnd[h].pc = "u_mutex"
  /\ LET e == hnd[h].entry
     IN \E o \in MutexCall(ent[e].mutex, "Unlock", 0, FALSE) :
          ent' = [ent EXCEPT ![e] = [@ EXCEPT !.mutex = o[1], !.owner = None,
                                              !.muInternal = FALSE]]
  /\ hnd' = [hnd EXCEPT ![h].pc = "u_store"]
  /\ UNCHANGED <<mu, table, ses, frc, forceCalls>>
  /\ LMFrame

\* session.unlock()
UnlockStore(h) ==
  /\ hnd[h].pc = "u_store"
  /\ ses' = sessionStore(hnd[h].session)
  /\ hnd' = [hnd EXCEPT ![h].pc = "u_kind"]
  /\ UNCHANGED <<mu, table, ent, frc, forceCalls>>
  /\ LMFrame

\* kind.Close()
UnlockSignal(h) ==
  /\ hnd[h].pc = "u_kind"
  /\ ses' = sessionClose(hnd[h].session, "unlocked")
  /\ hnd' = [hnd EXCEPT ![h].pc = "u_done"]
  /\ UNCHANGED <<mu, table, ent, frc, forceCalls>>
  /\ LMFrame

\* s.done.Close()
UnlockDone(h) ==
  /\ hnd[h].pc = "u_done"
  /\ ses' = sessionCloseDone(hnd[h].session)
  /\ hnd' = [hnd EXCEPT ![h].pc = "u_unlink"]
  /\ UNCHANGED <<mu, table, ent, frc, forceCalls>>
  /\ LMFrame

\* markUnlocked: the handle after runtime.SetFinalizer(ml, nil)
markUnlocked(ml) == [ml EXCEPT !.fin = FALSE]

\* ml.unlink(); ml.markUnlocked()
UnlockUnlink(h) ==
  /\ hnd[h].pc = "u_unlink"
  /\ unlink(h, markUnlocked([hnd[h] EXCEPT !.pc = "idle", !.op = "none", !.res = "ok"]),
               [hnd[h] EXCEPT !.pc = "idle", !.op = "none",
                              !.res = "panic: ref count released too often"])
  /\ UNCHANGED <<mu, ses, frc, forceCalls>>
  /\ LMFrame

\* ------------------------------------------------- LockManager.ForceUnlock
ForceCall(f, op, k) ==
  /\ frc[f].pc = "idle"
  /\ forceCalls < MaxForceCalls
  /\ forceCalls' = forceCalls + 1
  /\ frc' = [frc EXCEPT ![f] = [ForcerIdle EXCEPT !.op = op, !.key = k,
               !.pc = IF op = "ForceUnlock" THEN "fu_find" ELSE "fa_lock"]]
  /\ UNCHANGED <<mu, table, ent, ses, hnd>>
  /\ LMFrame

\* m.mu.Lock(); entry := m.findEntry(key); m.mu.Unlock().  A panic of Retain
\* leaves m.mu locked.
ForceFind(f) ==
  /\ frc[f].pc = "fu_find"
  /\ ~mu
  /\ LET e == findEntry(frc[f].key)
     IN IF e = None
          THEN /\ frc' = [frc EXCEPT ![f].pc = "fu_enter"]
               /\ UNCHANGED <<mu, ent>>
          ELSE /\ ent' = [ent EXCEPT ![e].ref = RefCountRetain(@)]
               /\ IF RefCountRetainPanics(ent[e].ref)
                    THEN /\ mu' = TRUE
                         /\ frc' = [frc EXCEPT ![f] = [@ EXCEPT !.pc = "idle",
                                      !.res = "panic: retaining released ref count"]]
                    ELSE /\ UNCHANGED mu
                         /\ frc' = [frc EXCEPT ![f] = [@ EXCEPT !.pc = "fu_enter",
                                                                !.entry = e]]
  /\ UNCHANGED <<table, ses, hnd, forceCalls>>
  /\ LMFrame

\* ForceUnlock revokes the session it read when that session is not nil
ForceUnlockRevokes(s) == s # None

\* ForceUnlock after a nil session: session.forceUnlock() dereferences nil
\* and panics, before releaseEntry
ForceUnlockNilSession(f) ==
  [frc[f] EXCEPT !.pc = "idle", !.entry = None,
                 !.res = "panic: nil pointer dereference"]

\* ForceUnlock's section under entry.muInternal, up to the Mutex release.
\* Without entry, entry.muInternal.Lock() dereferences nil and panics.
ForceEnter(f) ==
  /\ frc[f].pc = "fu_enter"
  /\ LET e == frc[f].entry
     IN IF e = None
          THEN /\ frc' = [frc EXCEPT ![f] = [@ EXCEPT !.pc = "idle",
                                 !.res = "panic: nil pointer dereference"]]
               /\ UNCHANGED ent
          ELSE /\ ~ent[e].muInternal
               /\ LET s == ent[e].session
                  IN IF ForceUnlockRevokes(s)
                       THEN IF ses[s].isLocked
                              THEN /\ frc' = [frc EXCEPT ![f] = [@ EXCEPT
                                                !.pc = "f_mutex", !.session = s]]
                                   /\ ent' = [ent EXCEPT ![e] = [@ EXCEPT
                                                !.session = None, !.muInternal = TRUE]]
                              ELSE /\ frc' = [frc EXCEPT ![f] = [@ EXCEPT
                                                !.pc = "f_store", !.session = s]]
                                   /\ ent' = [ent EXCEPT ![e].session = None]
                       ELSE /\ frc' = [frc EXCEPT ![f] = ForceUnlockNilSession(f)]
                            /\ ent' = Collect(ent, table, hnd, frc')
  /\ UNCHANGED <<mu, table, ses, hnd, forceCalls>>
  /\ LMFrame

\* entry.Mutex.Unlock() and entry.muInternal.Unlock()
ForceMutex(f) ==
  /\ frc[f].pc = "f_mutex"
  /\ LET e == frc[f].entry
     IN \E o \in MutexCall(ent[e].mutex, "Unlock", 0, FALSE) :
          ent' = [ent EXCEPT ![e] = [@ EXCEPT !.mutex = o[1], !.owner = None,
                                              !.muInternal = FALSE]]
  /\ frc' = [frc EXCEPT ![f].pc = "f_store"]
  /\ UNCHANGED <<mu, table, ses, hnd, forceCalls>>
  /\ LMFrame

\* session.forceUnlock()
ForceStore(f) ==
  /\ frc[f].pc = "f_store"
  /\ ses' = sessionStore(frc[f].session)
  /\ frc' = [frc EXCEPT ![f].pc = "f_kind"]
  /\ UNCHANGED <<mu, table, ent, hnd, forceCalls>>
  /\ LMFrame

\* kind.Close()
ForceSignal(f) ==
  /\ frc[f].pc = "f_kind"
  /\ ses' = sessionClose(frc[f].session, "lost")
  /\ frc' = [frc EXCEPT ![f].pc = "f_done"]
  /\ UNCHANGED <<mu, table, ent, hnd, forceCalls>>
  /\ LMFrame

\* s.done.Close(); ForceUnlockAll goes on with its loop
ForceDone(f) ==
  /\ frc[f].pc = "f_done"
  /\ ses' = sessionCloseDone(frc[f].session)
  /\ frc' = [frc EXCEPT ![f] =
       IF frc[f].op = "ForceUnlock" THEN [@ EXCEPT !.pc = "fu_release"]
       ELSE [@ EXCEPT !.pc = "fa_loop", !.entry = None]]
  /\ UNCHANGED <<mu, table, ent, hnd, forceCalls>>
  /\ LMFrame

\* m.releaseEntry(entry); ForceUnlock returns
ForceRelease(f) ==
  /\ frc[f].pc = "fu_release"
  /\ ~mu
  /\ LET e == frc[f].entry
     IN /\ frc' = [frc EXCEPT ![f] = [@ EXCEPT !.pc = "idle", !.entry = None,
                     !.res = IF RefCountReleasePanics(ent[e].ref)
                               THEN "panic: ref count released too often" ELSE "ok"]]
        /\ table' = releaseEntryTable(e)
        /\ ent' = Collect(releaseEntryEnt(e), table', hnd, frc')
  /\ UNCHANGED <<mu, ses, hnd, forceCalls>>
  /\ LMFrame

\* ------------------------------------------------- LockManager.ForceUnlockAll
\* m.mu.Lock(); the range loop visits the keys the table has now
ForceAllLock(f) ==
  /\ frc[f].pc = "fa_lock"
  /\ ~mu
  /\ mu' = TRUE
  /\ frc' = [frc EXCEPT ![f] = [@ EXCEPT !.pc = "fa_loop",
                                         !.todo = {k \in Keys : table[k] # None}]]
  /\ UNCHANGED <<table, ent, ses, hnd, forceCalls>>
  /\ LMFrame

\* ForceUnlockAll revokes the session it read when it is not nil and locked
ForceUnlockAllRevokes(s) == s # None /\ ses[s].isLocked

\* one iteration, in the map's arbitrary order, up to the Mutex release;
\* session.forceUnlock() on a nil session panics with m.mu still locked
ForceAllEnter(f, k) ==
  /\ frc[f].pc = "fa_loop"
  /\ k \in frc[f].todo
  /\ LET e == table[k]
         s == ent[e].session
     IN /\ ~ent[e].muInternal
        /\ IF ForceUnlockAllRevokes(s)
             THEN /\ frc' = [frc EXCEPT ![f] = [@ EXCEPT !.pc = "f_mutex",
                               !.entry = e, !.session = s, !.todo = @ \ {k}]]
                  /\ ent' = [ent EXCEPT ![e] = [@ EXCEPT !.session = None,
                                                         !.muInternal = TRUE]]
             ELSE /\ UNCHANGED ent
                  /\ IF s = None
                       THEN frc' = [frc EXCEPT ![f] = [@ EXCEPT !.pc = "idle",
                                      !.res = "panic: nil pointer dereference",
                                      !.todo = {}]]
                       ELSE frc' = [frc EXCEPT ![f] = [@ EXCEPT !.pc = "f_store",
                                      !.entry = e, !.session = s, !.todo = @ \ {k}]]
  /\ UNCHANGED <<mu, table, ses, hnd, forceCalls>>
  /\ LMFrame

\* the loop is through: m.mu.Unlock()
ForceAllReturn(f) ==
  /\ frc[f].pc = "fa_loop"
  /\ frc[f].todo = {}
  /\ mu' = FALSE
  /\ frc' = [frc EXCEPT ![f] = [@ EXCEPT !.pc = "idle", !.res = "ok"]]
  /\ UNCHANGED <<table, ent, ses, hnd, forceCalls>>
  /\ LMFrame

\* ------------------------------------------------- LockManager: specification
LMNext ==
  \/ \E h \in Handles, k \in Keys : Access(h, k)
  \/ \E h \in Handles, op \in AcquireOps :
       \E dur \in (IF op = "LockTimeout" THEN Durations ELSE {0}) :
         CallAcquire(h, op, dur)
  \/ \E h \in Handles : Link(h)
  \/ \E h \in Handles : AcquireMutex(h)
  \/ \E h \in Handles : AcquireExpired(h)
  \/ \E h \in Handles : MarkSession(h)
  \/ \E h \in Handles : MarkEntry(h)
  \/ \E h \in Handles : ReturnIsLocked(h)
  \/ \E h \in Handles : UnlinkFailed(h)
  \/ \E h \in Handles : CallUnlock(h)
  \/ \E h \in Handles : UnlockEnter(h)
  \/ \E h \in Handles : UnlockMutex(h)
  \/ \E h \in Handles : UnlockStore(h)
  \/ \E h \in Handles : UnlockSignal(h)
  \/ \E h \in Handles : UnlockDone(h)
  \/ \E h \in Handles : UnlockUnlink(h)
  \/ \E f \in Forcers, k \in Keys : ForceCall(f, "ForceUnlock", k)
  \/ \E f \in Forcers : ForceCall(f, "ForceUnlockAll", "")
  \/ \E f \in Forcers : ForceFind(f)
  \/ \E f \in Forcers : ForceEnter(f)
  \/ \E f \in Forcers : ForceMutex(f)
  \/ \E f \in Forcers : ForceStore(f)
  \/ \E f \in Forcers : ForceSignal(f)
  \/ \E f \in Forcers : ForceDone(f)
  \/ \E f \in Forcers : ForceRelease(f)
  \/ \E f \in Forcers : ForceAllLock(f)
  \/ \E f \in Forcers, k \in Keys : ForceAllEnter(f, k)
  \/ \E f \in Forcers : ForceAllReturn(f)

\* a LockManager from NewLockManager; no Mutex of its own under test
Init == LMInit /\ MxIdle /\ WLIdle /\ TGIdle /\ SWIdle /\ RCIdle /\ CLIdle /\ CBIdle

Spec == Init /\ [][LMNext]_vars

\* the steps a goroutine takes inside an acquire or an Unlock without waiting
\* for the key's Mutex
HandleStep(h) ==
  \/ Link(h) \/ AcquireExpired(h) \/ MarkSession(h) \/ MarkEntry(h)
  \/ ReturnIsLocked(h) \/ UnlinkFailed(h)
  \/ UnlockEnter(h) \/ UnlockMutex(h) \/ UnlockStore(h) \/ UnlockSignal(h)
  \/ UnlockDone(h) \/ UnlockUnlink(h)

\* the steps a goroutine takes inside ForceUnlock or ForceUnlockAll
ForcerStep(f) ==
  \/ ForceFind(f) \/ ForceEnter(f) \/ ForceMutex(f) \/ ForceStore(f)
  \/ ForceSignal(f) \/ ForceDone(f) \/ ForceRelease(f) \/ ForceAllLock(f)
  \/ (\E k \in Keys : ForceAllEnter(f, k)) \/ ForceAllReturn(f)

\* the receive of a goroutine parked on the Mutex channel
ReceiveToken(h) == AcquireMutex(h) /\ hnd'[h].pc = "mark"

\* every goroutine inside an operation is scheduled; a goroutine parked on
\* the Mutex channel is served when tokens keep arriving (the runtime hands
\* a sent value to the longest waiting receiver).  The calls themselves
\* (Access, Lock, Unlock, ForceUnlock) are up to the program.
LMFairness ==
  /\ \A h \in Handles : WF_vars(HandleStep(h)) /\ SF_vars(ReceiveToken(h))
  /\ \A f \in Forcers : WF_vars(ForcerStep(f))

SpecFair == Init /\ [][LMNext]_vars /\ LMFairness

\* ------------------------------------------------- Waitlist
\* Waiters are named 1, 2, ... in the order Enqueue creates them; None is the
\* nil pointer.  Every operation runs under l.mu, which it releases by a
\* deferred Unlock also when it panics, and blocks nowhere, so each is one
\* step.  A panic leaves what the operation had written up to it.
WaiterIds == 1..MaxWaiters

WaiterStates == {"Active", "Notified", "Broadcasted", "Cancelled"}

\* a Waiter not created yet
NoWaiter == [next |-> None, prev |-> None, state |-> "none", ready |-> FALSE,
             propagateCancel |-> FALSE]

\* the Waiter literal of Enqueue; ready: the channel w.ready is closed
newWaiter(p) == [next |-> None, prev |-> None, state |-> "Active",
                 ready |-> FALSE, propagateCancel |-> p]

\* no goroutine waits on the Waiter; ctx: the source passed to WaitContext is
\* cancelled
NoWait == [pc |-> "none", op |-> "none", ctx |-> FALSE, res |-> "none"]

\* the zero value of Waitlist
WLInit ==
  /\ wl = [head |-> None, tail |-> None]
  /\ wtr = [w \in WaiterIds |-> NoWaiter]
  /\ wcall = [op |-> "none", w |-> None, was |-> "none", res |-> "none",
              fwd |-> {}]
  /\ wgo = [w \in WaiterIds |-> NoWait]

WLFrame == UNCHANGED <<mxVars, lmVars, tgVars, swVars, rcVars, clVars, cbVars>>

\* the outcome of an operation: list, waiters and how it ended
Outcome(l, ws, res) == [l |-> l, ws |-> ws, res |-> res]

\* close(w.ready)
CloseReady(l, ws, w) ==
  IF ws[w].ready THEN Outcome(l, ws, "panic: close of closed channel")
  ELSE Outcome(l, [ws EXCEPT ![w].ready = TRUE], "ok")

\* Waitlist.Enqueue, creating waiter w
Enqueue(l, ws, w, p) ==
  LET ws0 == [ws EXCEPT ![w] = newWaiter(p)]
  IN IF l.tail = None
       THEN Outcome([head |-> w, tail |-> w],
                    [ws0 EXCEPT ![w].next = w, ![w].prev = w], "ok")
       ELSE LET ws1 == [ws0 EXCEPT ![w].prev = l.tail, ![w].next = l.head]
                ws2 == [ws1 EXCEPT ![l.tail].next = w]
            IN IF l.head = None
                 THEN Outcome(l, ws2, "panic: nil pointer dereference")
                 ELSE Outcome([l EXCEPT !.tail = w],
                              [ws2 EXCEPT ![l.head].prev = w], "ok")

\* a wake-up that leaves w.ready open
notifyWakeNoClose(l, ws, w) ==
  IF ws[w].state # "Active"
    THEN Outcome(l, ws, "panic: non active waiter in list")
    ELSE Outcome(l, [ws EXCEPT ![w].state = "Notified"], "ok")

\* the second half of notifyNext: the state check and the wake-up of w
notifyWake(l, ws, w) ==
  IF ws[w].state # "Active"
    THEN Outcome(l, ws, "panic: non active waiter in list")
    ELSE CloseReady(l, [ws EXCEPT ![w].state = "Notified"], w)

\* Waitlist.notifyNext
notifyNext(l, ws) ==
  IF l.head = None THEN Outcome(l, ws, "ok")
  ELSE LET w == l.head
       IN IF ws[w].next = w
            THEN notifyWake([head |-> None, tail |-> None], ws, w)
          ELSE IF ws[w].next = None
            THEN Outcome(l, ws, "panic: nil pointer dereference")
          ELSE LET ws1 == [ws EXCEPT ![ws[w].next].prev = ws[w].prev]
               IN IF ws1[w].prev = None
                    THEN Outcome(l, ws1, "panic: nil pointer dereference")
                    ELSE LET ws2 == [ws1 EXCEPT ![ws1[w].prev].next = ws1[w].next]
                         IN notifyWake([l EXCEPT !.head = ws2[w].next], ws2, w)

\* the loop of Broadcast from waiter w on
RECURSIVE BroadcastLoop(_, _, _)
BroadcastLoop(l, ws, w) ==
  IF w = None THEN Outcome(l, ws, "ok")
  ELSE IF ws[w].state # "Active"
    THEN Outcome(l, ws, "panic: non active waiter in list")
  ELSE LET o == CloseReady(l, [ws EXCEPT ![w].state = "Broadcasted"], w)
       IN IF o.res # "ok" THEN o ELSE BroadcastLoop(l, o.ws, o.ws[w].next)

\* Waitlist.Broadcast
Broadcast(l, ws) ==
  IF l.head = None THEN Outcome(l, ws, "ok")
  ELSE IF l.tail = None THEN Outcome(l, ws, "panic: nil pointer dereference")
  ELSE BroadcastLoop(l, [ws EXCEPT ![l.tail].next = None], l.head)

\* Waitlist.cancelActive
cancelActive(l, ws, w) ==
  IF ws[w].next = w
    THEN CloseReady([head |-> None, tail |-> None],
                    [ws EXCEPT ![w].state = "Cancelled"], w)
  ELSE IF ws[w].next = None
    THEN Outcome(l, ws, "panic: nil pointer dereference")
  ELSE LET ws1 == [ws EXCEPT ![ws[w].next].prev = ws[w].prev]
       IN IF ws1[w].prev = None
            THEN Outcome(l, ws1, "panic: nil pointer dereference")
            ELSE LET ws2 == [ws1 EXCEPT ![ws1[w].prev].next = ws1[w].next]
                     l1 == IF l.tail = w THEN [l EXCEPT !.tail = ws2[w].prev] ELSE l
                     l2 == IF l1.head = w THEN [l1 EXCEPT !.head = ws2[w].next] ELSE l1
                 IN CloseReady(l2, [ws2 EXCEPT ![w].state = "Cancelled"], w)

\* cancelNotified that leaves w Notified
cancelNotifiedKeepsState(l, ws, w) == notifyNext(l, ws)

\* Waitlist.cancelNotified
cancelNotified(l, ws, w) ==
  LET o == notifyNext(l, ws)
  IN IF o.res # "ok" THEN o
     ELSE Outcome(o.l, [o.ws EXCEPT ![w].state = "Cancelled"], "ok")

\* cancel that forwards the token of every Notified waiter
cancelAlwaysForwards(l, ws, w) ==
  CASE ws[w].state = "Notified" -> cancelNotified(l, ws, w)
    [] ws[w].state = "Active" -> cancelActive(l, ws, w)
    [] OTHER -> Outcome(l, ws, "ok")

\* Waitlist.cancel
cancel(l, ws, w) ==
  CASE ws[w].state = "Notified" ->
         IF ws[w].propagateCancel THEN cancelNotified(l, ws, w)
         ELSE Outcome(l, [ws EXCEPT ![w].state = "Cancelled"], "ok")
    [] ws[w].state = "Active" -> cancelActive(l, ws, w)
    [] OTHER -> Outcome(l, ws, "ok")

\* the waiters created so far
Created == {w \in WaiterIds : wtr[w].state # "none"}

\* the operation op, on waiter w if any, ends as outcome o; was is the state
\* of w before it, fwd the waiters whose Cancel ran cancelNotified to its end
WlDone(op, w, o) ==
  /\ wl' = o.l
  /\ wtr' = o.ws
  /\ wcall' = [op |-> op, w |-> w, res |-> o.res,
               was |-> IF w = None THEN "none" ELSE wtr[w].state,
               fwd |-> IF /\ op = "Cancel"
                          /\ wtr[w].state = "Notified"
                          /\ wtr[w].propagateCancel
                          /\ o.res = "ok"
                         THEN wcall.fwd \cup {w} ELSE wcall.fwd]

WlEnqueue(p) ==
  /\ Created # WaiterIds
  /\ LET w == Cardinality(Created) + 1
     IN WlDone("Enqueue", w, Enqueue(wl, wtr, w, p))
  /\ UNCHANGED wgo
  /\ WLFrame

WlNotify ==
  /\ WlDone("Notify", None, notifyNext(wl, wtr))
  /\ UNCHANGED wgo
  /\ WLFrame

WlBroadcast ==
  /\ WlDone("Broadcast", None, Broadcast(wl, wtr))
  /\ UNCHANGED wgo
  /\ WLFrame

\* Waiter.Cancel with no onCancel callback
WlCancel(w) ==
  /\ w \in Created
  /\ WlDone("Cancel", w, cancel(wl, wtr, w))
  /\ UNCHANGED wgo
  /\ WLFrame

WLNext ==
  \/ \E p \in BOOLEAN : WlEnqueue(p)
  \/ WlNotify
  \/ WlBroadcast
  \/ \E w \in WaiterIds : WlCancel(w)

WaitlistInit == WLInit /\ MxIdle /\ LMIdle /\ TGIdle /\ SWIdle /\ RCIdle /\ CLIdle /\ CBIdle

SpecWaitlist == WaitlistInit /\ [][WLNext]_vars

\* ------------------------------------------------- Waitlist: waiting
WaitOps == {"Wait", "WaitContext", "WaitTimeout"}

\* the Waiters some goroutine waits or has waited on
Waited == {w \in WaiterIds : wgo[w].pc # "none"}

\* a goroutine starts op on a Waiter
StartWait(w, op) ==
  /\ Cardinality(Waited) < MaxWaits
  /\ wgo' = [wgo EXCEPT ![w] = [pc |-> "wait", op |-> op, ctx |-> FALSE,
                             res |-> "none"]]

\* Waitlist.Wait and Waitlist.WaitContext: Enqueue(true, nil), then the wait
\* on the new Waiter
WlListWait(op) ==
  /\ Created # WaiterIds
  /\ LET w == Cardinality(Created) + 1
     IN /\ WlDone("Enqueue", w, Enqueue(wl, wtr, w, TRUE))
        /\ StartWait(w, op)
  /\ WLFrame

\* Waiter.Wait, Waiter.WaitContext and Waiter.WaitTimeout on a Waiter that
\* Enqueue returned
WlWaiterWait(w, op) ==
  /\ w \in Created
  /\ wgo[w].pc = "none"
  /\ StartWait(w, op)
  /\ UNCHANGED <<wl, wtr, wcall>>
  /\ WLFrame

\* the source of a pending WaitContext is cancelled
WlWaitCancel(w) ==
  /\ wgo[w].pc = "wait"
  /\ wgo[w].op = "WaitContext"
  /\ ~wgo[w].ctx
  /\ wgo' = [wgo EXCEPT ![w].ctx = TRUE]
  /\ UNCHANGED <<wl, wtr, wcall>>
  /\ WLFrame

\* the results the pending wait on w can return now: "ok" for the receive
\* from the closed w.ready, "fail" for context.Err() and for the timer
WaitResults(w) ==
  (IF wtr[w].ready THEN {"ok"} ELSE {})
    \cup (IF wgo[w].op = "WaitContext" /\ wgo[w].ctx THEN {"fail"} ELSE {})
    \cup (IF wgo[w].op = "WaitTimeout" THEN {"fail"} ELSE {})

\* the receive or select of the pending wait takes one of its branches and
\* the call returns
WlWaitStep(w) ==
  /\ wgo[w].pc = "wait"
  /\ \E r \in WaitResults(w) :
       wgo' = [wgo EXCEPT ![w] = [pc |-> "done", op |-> "none", ctx |-> FALSE,
                                  res |-> r]]
  /\ UNCHANGED <<wl, wtr, wcall>>
  /\ WLFrame

WLWaitNext ==
  \/ WLNext
  \/ \E op \in {"Wait", "WaitContext"} : WlListWait(op)
  \/ \E w \in WaiterIds, op \in WaitOps : WlWaiterWait(w, op)
  \/ \E w \in WaiterIds : WlWaitCancel(w)
  \/ \E w \in WaiterIds : WlWaitStep(w)

SpecWaitlistWait == WaitlistInit /\ [][WLWaitNext]_vars

\* ------------------------------------------------- Waiter.Cancel with onCancel
\* Waiters enqueued with an onCancel callback that calls Notify on the same
\* Waitlist.  Here l.mu is a variable and Waiter.Cancel takes several steps:
\* l.mu.Lock() in cancel, the body of cancel with the deferred Unlock, then
\* the callback: l.mu.Lock() in Notify, notifyNext with the deferred Unlock.
\* The other operations (Enqueue, Notify, Broadcast by other goroutines) hold
\* l.mu from start to end and block nowhere: one step each, when l.mu is free.
Cancellers == 1..NumCancellers

CancellerIdle == [pc |-> "idle", w |-> None, res |-> "none"]

CBInit ==
  /\ WLInit
  /\ lmu = None
  /\ wcb = [g \in Cancellers |-> CancellerIdle]

CBFrame == UNCHANGED <<mxVars, lmVars, tgVars, swVars, rcVars, clVars>>

\* an operation on the list by another goroutine ends as outcome o
CbDone(o) ==
  /\ lmu = None
  /\ wl' = o.l
  /\ wtr' = o.ws
  /\ UNCHANGED <<wcall, wgo, lmu, wcb>>

\* Enqueue(p, onCancel)
CbEnqueue(p) ==
  /\ Created # WaiterIds
  /\ CbDone(Enqueue(wl, wtr, Cardinality(Created) + 1, p))
  /\ CBFrame

CbNotify ==
  /\ CbDone(notifyNext(wl, wtr))
  /\ CBFrame

CbBroadcast ==
  /\ CbDone(Broadcast(wl, wtr))
  /\ CBFrame

\* g calls w.Cancel(): l.mu.Lock() in Waitlist.cancel
CbCancelLock(g, w) ==
  /\ wcb[g].pc = "idle"
  /\ w \in Created
  /\ lmu = None
  /\ lmu' = g
  /\ wcb' = [wcb EXCEPT ![g] = [pc |-> "cancel", w |-> w, res |-> "none"]]
  /\ UNCHANGED <<wl, wtr, wcall, wgo>>
  /\ CBFrame

\* cancel returns with l.mu still locked
cancelKeepsLock(holder) == holder

\* defer l.mu.Unlock() of Waitlist.cancel
cancelUnlock(holder) == None

\* the body of Waitlist.cancel and its deferred Unlock; after a panic the
\* callback is not run
CbCancelBody(g) ==
  /\ wcb[g].pc = "cancel"
  /\ lmu = g
  /\ LET o == cancel(wl, wtr, wcb[g].w)
     IN /\ wl' = o.l
        /\ wtr' = o.ws
        /\ wcb' = [wcb EXCEPT ![g] =
             IF o.res = "ok" THEN [@ EXCEPT !.pc = "onCancel"]
             ELSE [pc |-> "idle", w |-> None, res |-> o.res]]
  /\ lmu' = cancelUnlock(g)
  /\ UNCHANGED <<wcall, wgo>>
  /\ CBFrame

\* w.onCancel(): l.mu.Lock() in Notify
CbCallbackLock(g) ==
  /\ wcb[g].pc = "onCancel"
  /\ lmu = None
  /\ lmu' = g
  /\ wcb' = [wcb EXCEPT ![g].pc = "notify"]
  /\ UNCHANGED <<wl, wtr, wcall, wgo>>
  /\ CBFrame

\* w.onCancel(): notifyNext and the deferred Unlock of Notify; Cancel returns
CbCallbackNotify(g) ==
  /\ wcb[g].pc = "notify"
  /\ lmu = g
  /\ LET o == notifyNext(wl, wtr)
     IN /\ wl' = o.l
        /\ wtr' = o.ws
        /\ wcb' = [wcb EXCEPT ![g] =
             [pc |-> "idle", w |-> None,
              res |-> IF o.res = "ok" THEN "returned" ELSE o.res]]
  /\ lmu' = None
  /\ UNCHANGED <<wcall, wgo>>
  /\ CBFrame

CBNext ==
  \/ \E p \in BOOLEAN : CbEnqueue(p)
  \/ CbNotify
  \/ CbBroadcast
  \/ \E g \in Cancellers, w \in WaiterIds : CbCancelLock(g, w)
  \/ \E g \in Cancellers : CbCancelBody(g)
  \/ \E g \in Cancellers : CbCallbackLock(g)
  \/ \E g \in Cancellers : CbCallbackNotify(g)

WaitlistCallbackInit ==
  CBInit /\ MxIdle /\ LMIdle /\ TGIdle /\ SWIdle /\ RCIdle /\ CLIdle

SpecWaitlistCallback == WaitlistCallbackInit /\ [][CBNext]_vars

\* ------------------------------------------------- SafeWaitGroup
\* closed is guarded by s.mu; count is the counter of the sync.WaitGroup.
\* Add with n >= 0 checks closed and adds under the read lock, Close sets
\* closed under the write lock: each is one step.
newSafeWaitGroup == [closed |-> FALSE, count |-> 0]

\* the outcome of a call: the group after it and the error returned
SwgOutcome(g, err) == [g |-> g, err |-> err]

\* sync.WaitGroup.Add: a negative counter panics
WaitGroupAdd(g, n) ==
  IF g.count + n < 0
    THEN SwgOutcome(g, "panic: sync: negative WaitGroup counter")
    ELSE SwgOutcome([g EXCEPT !.count = @ + n], "nil")

\* Add that does not look at closed
SafeWaitGroupAddUnchecked(g, n) == WaitGroupAdd(g, n)

\* SafeWaitGroup.Add
SafeWaitGroupAdd(g, n) ==
  IF n < 0 THEN WaitGroupAdd(g, n)
  ELSE IF g.closed THEN SwgOutcome(g, "ErrGroupClosed")
  ELSE WaitGroupAdd(g, n)

\* a Done that takes two units off the counter
SafeWaitGroupDoneTwice(g) == WaitGroupAdd(WaitGroupAdd(g, -1).g, -1)

\* SafeWaitGroup.Done
SafeWaitGroupDone(g) == WaitGroupAdd(g, -1)

\* a Close that leaves the group open
SafeWaitGroupCloseNot(g) == g

\* SafeWaitGroup.Close
SafeWaitGroupClose(g) == [g EXCEPT !.closed = TRUE]

\* wg.Wait() that returns whatever the counter is
WaitGroupWaitNoBlock(g) == TRUE

\* wg.Wait() can return: the counter is zero
WaitGroupWaitReady(g) == g.count = 0

\* ------------------------------------------------- SafeWaitGroup under test
\* Goroutines call Add, Done, Close and Wait on one SafeWaitGroup.  Add with
\* n >= 0 runs under the read lock and Close under the write lock of s.mu, so
\* each is one step; Wait is Close followed by the blocking s.wg.Wait().  A
\* goroutine gives back (Done, Add(-1)) only units it added, as sync.WaitGroup
\* requires.  units (what the goroutine added and has not given back) and
\* closer (it has called Close or Wait) only observe.
SwProcs == 1..NumSwProcs

Deltas == {-1, 0, 1, 2}

SwProcIdle == [pc |-> "idle", op |-> "none", n |-> 0, res |-> "none",
               units |-> 0, closer |-> FALSE]

SWInit ==
  /\ swg = newSafeWaitGroup
  /\ swp = [p \in SwProcs |-> SwProcIdle]

SWFrame == UNCHANGED <<mxVars, lmVars, wlVars, tgVars, rcVars, clVars, cbVars>>

\* p calls Add(n)
SwAdd(p, n) ==
  /\ swp[p].pc = "idle"
  /\ n < 0 => swp[p].units >= -n
  /\ n > 0 => swg.count + n <= MaxUnits
  /\ LET o == SafeWaitGroupAdd(swg, n)
     IN /\ swg' = o.g
        /\ swp' = [swp EXCEPT ![p] = [@ EXCEPT
             !.op = "Add", !.n = n, !.res = o.err,
             !.units = IF n < 0 \/ o.err = "nil" THEN @ + n ELSE @]]
  /\ SWFrame

\* p calls Done()
SwDone(p) ==
  /\ swp[p].pc = "idle"
  /\ swp[p].units >= 1
  /\ LET o == SafeWaitGroupDone(swg)
     IN /\ swg' = o.g
        /\ swp' = [swp EXCEPT ![p] = [@ EXCEPT
             !.op = "Done", !.n = 0, !.res = o.err, !.units = @ - 1]]
  /\ SWFrame

\* p calls Close()
SwClose(p) ==
  /\ swp[p].pc = "idle"
  /\ swg' = SafeWaitGroupClose(swg)
  /\ swp' = [swp EXCEPT ![p] = [@ EXCEPT
       !.op = "Close", !.n = 0, !.res = "returned", !.closer = TRUE]]
  /\ SWFrame

\* p calls Wait(): s.Close()
SwWait(p) ==
  /\ swp[p].pc = "idle"
  /\ swg' = SafeWaitGroupClose(swg)
  /\ swp' = [swp EXCEPT ![p] = [@ EXCEPT
       !.pc = "waiting", !.op = "Wait", !.n = 0, !.res = "none",
       !.closer = TRUE]]
  /\ SWFrame

\* Wait(): s.wg.Wait() returns
SwWaitReturn(p) ==
  /\ swp[p].pc = "waiting"
  /\ WaitGroupWaitReady(swg)
  /\ swp' = [swp EXCEPT ![p] = [@ EXCEPT !.pc = "idle", !.res = "returned"]]
  /\ UNCHANGED swg
  /\ SWFrame

SWNext ==
  \/ \E p \in SwProcs, n \in Deltas : SwAdd(p, n)
  \/ \E p \in SwProcs : SwDone(p)
  \/ \E p \in SwProcs : SwClose(p)
  \/ \E p \in SwProcs : SwWait(p)
  \/ \E p \in SwProcs : SwWaitReturn(p)

SafeWaitGroupInit == SWInit /\ MxIdle /\ LMIdle /\ WLIdle /\ TGIdle /\ RCIdle /\ CLIdle /\ CBIdle

SpecSafeWaitGroup == SafeWaitGroupInit /\ [][SWNext]_vars

\* ------------------------------------------------- Cell
\* src/ holds two versions of Cell: unison/cell.go, and unnamed/part_009
\* with waiterBuf, numWaiter and waiterID.  The version is fixed at
\* construction.  Every section of code between c.mu.Lock() and
\* c.mu.Unlock() blocks nowhere and is one step; the select of Wait is a step
\* of its own.  Channels are named 1, 2, ... in the order they are made;
\* closed[ch] says that ch is closed.  States are named by the writeID of the
\* Set that stored them (0: the initial state).
CellVersions == {"cell.go", "part_009"}

CellProcs == 1..NumCellProcs

ChanIds == 1..(MaxChans + 1)

\* NewCell(st)
NewCell(version) ==
  [version |-> version, writeID |-> 0, readID |-> 0, state |-> 0,
   waiter |-> None, waiterBuf |-> None, numWaiter |-> 0, waiterID |-> 0,
   made |-> 0, closed |-> [ch \in ChanIds |-> FALSE]]

CellProcIdle == [pc |-> "idle", ch |-> None, wid |-> 0, ctx |-> FALSE,
                 res |-> "none", val |-> 0, since |-> 0]

CLInit ==
  /\ \E v \in CellVersions : cell = NewCell(v)
  /\ cwt = [p \in CellProcs |-> CellProcIdle]

CLFrame == UNCHANGED <<mxVars, lmVars, wlVars, tgVars, swVars, rcVars, cbVars>>

\* c.read()
CellRead(c) == [c EXCEPT !.readID = c.writeID]

\* Cell.Get
CellGet ==
  /\ cell.readID # cell.writeID
  /\ cell' = CellRead(cell)
  /\ UNCHANGED cwt
  /\ CLFrame

\* the waiter set-up of Wait in cell.go
CellWaiterOld(c) ==
  IF c.waiter = None
    THEN [c EXCEPT !.waiter = c.made + 1, !.made = @ + 1]
    ELSE c

\* the waiter set-up of Wait in part_009
CellWaiterNew(c) ==
  LET c1 == IF c.waiter = None
              THEN IF c.waiterBuf # None
                     THEN [c EXCEPT !.waiter = c.waiterBuf, !.waiterBuf = None,
                                    !.waiterID = @ + 1]
                     ELSE [c EXCEPT !.waiter = c.made + 1, !.made = @ + 1,
                                    !.waiterID = @ + 1]
              ELSE c
  IN [c1 EXCEPT !.numWaiter = @ + 1]

CellWaiter(c) ==
  IF c.version = "cell.go" THEN CellWaiterOld(c) ELSE CellWaiterNew(c)

\* Wait, up to the select: an update is pending and Wait returns it, or the
\* goroutine gets the shared waiter channel
CellWaitEnter(p) ==
  /\ cwt[p].pc = "idle"
  /\ IF cell.readID # cell.writeID
       THEN /\ cell' = CellRead(cell)
            /\ cwt' = [cwt EXCEPT ![p] = [CellProcIdle EXCEPT
                 !.res = "state", !.val = cell.state]]
       ELSE /\ cell.waiter = None =>
                 IF cell.version = "cell.go" THEN cell.made < MaxChans
                 ELSE cell.waiterID < MaxChans
            /\ cell' = CellWaiter(cell)
            /\ cwt' = [cwt EXCEPT ![p] = [CellProcIdle EXCEPT
                 !.pc = "select", !.ch = cell'.waiter, !.wid = cell'.waiterID,
                 !.since = cell.writeID]]
  /\ CLFrame

\* the source passed to Wait is cancelled
CellCancel(p) ==
  /\ cwt[p].pc = "select"
  /\ ~cwt[p].ctx
  /\ cwt' = [cwt EXCEPT ![p].ctx = TRUE]
  /\ UNCHANGED cell
  /\ CLFrame

\* the select of Wait takes a branch that is ready (any of them when both are)
CellSelect(p) ==
  /\ cwt[p].pc = "select"
  /\ \/ /\ cwt[p].ctx
        /\ cwt' = [cwt EXCEPT ![p].pc = "cancelled"]
     \/ /\ cell.closed[cwt[p].ch]
        /\ cwt' = [cwt EXCEPT ![p].pc = "woken"]
  /\ UNCHANGED cell
  /\ CLFrame

\* the cancellation branch of cell.go
CellCancelledOld(c, wid) == [c EXCEPT !.waiter = None]

\* the cancellation branch of part_009
CellCancelledNew(c, wid) ==
  IF c.waiterID # wid THEN c
  ELSE IF c.numWaiter - 1 < 0 THEN [c EXCEPT !.numWaiter = 0]
  ELSE IF c.numWaiter - 1 = 0
    THEN [c EXCEPT !.numWaiter = 0, !.waiterBuf = c.waiter, !.waiter = None]
  ELSE [c EXCEPT !.numWaiter = @ - 1]

\* Wait returns nil, cancel.Err()
CellWaitCancelled(p) ==
  /\ cwt[p].pc = "cancelled"
  /\ cell' = IF cell.version = "cell.go"
               THEN CellCancelledOld(cell, cwt[p].wid)
               ELSE CellCancelledNew(cell, cwt[p].wid)
  /\ cwt' = [cwt EXCEPT ![p] = [CellProcIdle EXCEPT !.res = "cancelled"]]
  /\ CLFrame

\* Wait returns c.read(), nil
CellWaitWoken(p) ==
  /\ cwt[p].pc = "woken"
  /\ cell' = CellRead(cell)
  /\ cwt' = [cwt EXCEPT ![p] = [CellProcIdle EXCEPT
       !.res = "state", !.val = cell.state]]
  /\ CLFrame

\* Cell.Set
CellSet ==
  /\ cell.writeID < MaxSets
  /\ LET c1 == [cell EXCEPT !.writeID = @ + 1, !.state = cell.writeID + 1]
     IN cell' = IF c1.waiter # None
                  THEN [c1 EXCEPT !.closed[c1.waiter] = TRUE, !.waiter = None,
                                  !.numWaiter = 0]
                  ELSE c1
  /\ UNCHANGED cwt
  /\ CLFrame

CLNext ==
  \/ CellGet
  \/ CellSet
  \/ \E p \in CellProcs : CellWaitEnter(p)
  \/ \E p \in CellProcs : CellCancel(p)
  \/ \E p \in CellProcs : CellSelect(p)
  \/ \E p \in CellProcs : CellWaitCancelled(p)
  \/ \E p \in CellProcs : CellWaitWoken(p)

CellInit == CLInit /\ MxIdle /\ LMIdle /\ WLIdle /\ TGIdle /\ SWIdle /\ RCIdle /\ CBIdle

SpecCell == CellInit /\ [][CLNext]_vars

\* ------------------------------------------------- TaskGroup
\* The quit policies, the functions tasks run, and what a run returns.
Policies == {"StopAll", "ContinueOnErrors", "RestartOnError", "StopOnError",
             "StopOnErrorOrCancel"}

\* the functions submitted: return nil; return an error; return
\* context.Canceled; wait for the cancellation source, then return nil; return
\* an error on the first run and nil on the next
TaskFns == {"nil", "err", "cancel", "block", "errOnce"}

TaskIds == 1..MaxTasks

Callers == 1..NumCallers

NoTask == [pc |-> "none", fn |-> "none", run |-> 0, err |-> "none"]

CallerIdle == [pc |-> "idle", op |-> "none", res |-> <<>>]

\* the default constructed TaskGroup with its configuration: quit policy,
\* stop predicate (accepts: what it answers) and error cap (0: no cap).
\* hist (all errors recorded, in order), consulted (the predicate was
\* called), stopCalled and firedBy (who fired the source first) only observe.
newTaskGroup(policy, accepts, maxErrors) ==
  [policy |-> policy, accepts |-> accepts, maxErrors |-> maxErrors,
   cancelled |-> FALSE, wg |-> newSafeWaitGroup, errs |-> <<>>,
   hist |-> <<>>, consulted |-> FALSE, stopCalled |-> FALSE,
   firedBy |-> "none"]

\* only StopOnError and StopOnErrorOrCancel take a predicate
TGConfigs ==
  {c \in Policies \X BOOLEAN \X {0, ErrorCap} :
     c[1] \in {"StopOnError", "StopOnErrorOrCancel"} \/ c[2]}

TGInit ==
  /\ \E c \in TGConfigs : tg = newTaskGroup(c[1], c[2], c[3])
  /\ tsk = [t \in TaskIds |-> NoTask]
  /\ tcl = [c \in Callers |-> CallerIdle]

TGFrame == UNCHANGED <<mxVars, lmVars, wlVars, swVars, rcVars, clVars, cbVars>>

\* what run number run of fn returns: "nil", "canceled" (the cancellation
\* sentinel) or "error" (any other error)
FnResult(fn, run) ==
  CASE fn = "nil" -> "nil"
    [] fn = "err" -> "error"
    [] fn = "cancel" -> "canceled"
    [] fn = "block" -> "nil"
    [] fn = "errOnce" -> IF run = 1 THEN "error" ELSE "nil"

\* the error value of run number run of task t
ErrorOf(t, run) == <<t, run>>

\* a failure that counts the cancellation sentinel too
IsFailureOrCancel(err) == err # "nil"

\* a failure test that takes the cancellation sentinel for an error
IsFailureCountsCancel(err) == err # "nil"

\* a task failure: a non-cancellation error
IsFailure(err) == err = "error"

\* the error list that evicts the newest error when over the cap
RecordErrorDropNewest(errs, cap, e) ==
  IF cap > 0 /\ Len(errs) >= cap THEN errs ELSE Append(errs, e)

\* the error list after e was recorded: only the most recent cap errors stay
RecordError(errs, cap, e) ==
  LET all == Append(errs, e)
  IN IF cap > 0 /\ Len(all) > cap THEN Tail(all) ELSE all

\* the policy consults the stop predicate for this ending
Consults(policy, err) ==
  \/ policy = "StopOnError" /\ IsFailure(err)
  \/ policy = "StopOnErrorOrCancel" /\ IsFailureOrCancel(err)

\* StopAll that lets the other tasks run on
StopAllContinues(err) == "continue"

\* StopAll: any ending stops the group
StopAll(err) == "stop"

\* ContinueOnErrors: no ending stops the group
ContinueOnErrors(err) == "continue"

\* RestartOnError that never restarts
RestartOnErrorNever(err) == "continue"

\* RestartOnError: a failure runs the function again
RestartOnError(err) == IF IsFailure(err) THEN "restart" ELSE "continue"

\* StopOnError that never stops the group
StopOnErrorIgnores(accepts, err) == "continue"

\* StopOnError(predicate): a failure the predicate accepts stops the group
StopOnError(accepts, err) ==
  IF IsFailure(err) /\ accepts THEN "stop" ELSE "continue"

\* StopOnErrorOrCancel(predicate): cancellation endings count too
StopOnErrorOrCancel(accepts, err) ==
  IF IsFailureOrCancel(err) /\ accepts THEN "stop" ELSE "continue"

\* what the quit policy decides when a task ends with err
QuitAction(policy, accepts, err) ==
  CASE policy = "StopAll" -> StopAll(err)
    [] policy = "ContinueOnErrors" -> ContinueOnErrors(err)
    [] policy = "RestartOnError" -> RestartOnError(err)
    [] policy = "StopOnError" -> StopOnError(accepts, err)
    [] policy = "StopOnErrorOrCancel" -> StopOnErrorOrCancel(accepts, err)

\* the tasks Go was called for
Submitted == {t \in TaskIds : tsk[t].pc # "none"}

\* Go(fn): "group closed" once the group is stopped, otherwise one more task
\* runs fn with the group's cancellation source
TgGo(fn) ==
  /\ Submitted # TaskIds
  /\ LET t == Cardinality(Submitted) + 1
         o == SafeWaitGroupAdd(tg.wg, 1)
     IN /\ tg' = [tg EXCEPT !.wg = o.g]
        /\ tsk' = [tsk EXCEPT ![t] =
             IF o.err = "nil"
               THEN [pc |-> "running", fn |-> fn, run |-> 1, err |-> "none"]
               ELSE [pc |-> "rejected", fn |-> fn, run |-> 0, err |-> o.err]]
  /\ UNCHANGED tcl
  /\ TGFrame

\* the function of task t returns; a function that waits for the
\* cancellation source returns only after the source has fired
TgTaskReturn(t) ==
  /\ tsk[t].pc = "running"
  /\ tsk[t].fn = "block" => tg.cancelled
  /\ tsk' = [tsk EXCEPT ![t] = [@ EXCEPT !.pc = "quit",
                                         !.err = FnResult(tsk[t].fn, tsk[t].run)]]
  /\ UNCHANGED <<tg, tcl>>
  /\ TGFrame

\* task t ends: a failure is recorded, the quit policy is applied, and the
\* task either runs its function again or is done
TgTaskQuit(t) ==
  /\ tsk[t].pc = "quit"
  /\ LET err == tsk[t].err
         act == QuitAction(tg.policy, tg.accepts, err)
         again == act = "restart" /\ ~tg.cancelled
         e == ErrorOf(t, tsk[t].run)
     IN /\ again => tsk[t].run < MaxRuns
        /\ tg' = [tg EXCEPT
             !.errs = IF IsFailure(err) THEN RecordError(@, tg.maxErrors, e) ELSE @,
             !.hist = IF IsFailure(err) THEN Append(@, e) ELSE @,
             !.consulted = @ \/ Consults(tg.policy, err),
             !.cancelled = @ \/ act = "stop",
             !.firedBy = IF ~tg.cancelled /\ act = "stop" THEN "quit" ELSE @,
             !.wg = IF again THEN @ ELSE SafeWaitGroupDone(@).g]
        /\ tsk' = [tsk EXCEPT ![t] =
             IF again THEN [@ EXCEPT !.pc = "running", !.run = @ + 1, !.err = "none"]
             ELSE [@ EXCEPT !.pc = "ended"]]
  /\ UNCHANGED tcl
  /\ TGFrame

\* Stop is called: the group's source is cancelled and the group is closed
TgStop(c) ==
  /\ tcl[c].pc = "idle"
  /\ tg' = [tg EXCEPT !.cancelled = TRUE, !.stopCalled = TRUE,
                      !.firedBy = IF tg.cancelled THEN @ ELSE "Stop",
                      !.wg = SafeWaitGroupClose(@)]
  /\ tcl' = [tcl EXCEPT ![c] = [pc |-> "waiting", op |-> "Stop", res |-> <<>>]]
  /\ UNCHANGED tsk
  /\ TGFrame

\* Wait is called: the group is closed, its source left alone
TgWait(c) ==
  /\ tcl[c].pc = "idle"
  /\ tg' = [tg EXCEPT !.wg = SafeWaitGroupClose(@)]
  /\ tcl' = [tcl EXCEPT ![c] = [pc |-> "waiting", op |-> "Wait", res |-> <<>>]]
  /\ UNCHANGED tsk
  /\ TGFrame

\* all tasks have ended: Stop or Wait returns the aggregate of the errors
TgReturn(c) ==
  /\ tcl[c].pc = "waiting"
  /\ WaitGroupWaitReady(tg.wg)
  /\ tcl' = [tcl EXCEPT ![c] = [@ EXCEPT !.pc = "returned", !.res = tg.errs]]
  /\ UNCHANGED <<tg, tsk>>
  /\ TGFrame

\* the caller goes on to its next call
TgCallerNext(c) ==
  /\ tcl[c].pc = "returned"
  /\ tcl' = [tcl EXCEPT ![c] = CallerIdle]
  /\ UNCHANGED <<tg, tsk>>
  /\ TGFrame

TGNext ==
  \/ \E fn \in TaskFns : TgGo(fn)
  \/ \E t \in TaskIds : TgTaskReturn(t)
  \/ \E t \in TaskIds : TgTaskQuit(t)
  \/ \E c \in Callers : TgStop(c)
  \/ \E c \in Callers : TgWait(c)
  \/ \E c \in Callers : TgReturn(c)
  \/ \E c \in Callers : TgCallerNext(c)

TaskGroupInit == TGInit /\ MxIdle /\ LMIdle /\ WLIdle /\ SWIdle /\ RCIdle /\ CLIdle /\ CBIdle

SpecTaskGroup == TaskGroupInit /\ [][TGNext]_vars

\* every task goroutine and every caller is scheduled: a function that can
\* return returns, an ended task is handled, a wait that can return returns
TGFairness ==
  /\ \A t \in TaskIds : WF_vars(TgTaskReturn(t)) /\ WF_vars(TgTaskQuit(t))
  /\ \A c \in Callers : WF_vars(TgReturn(c))

SpecTaskGroupFair == TaskGroupInit /\ [][TGNext]_vars /\ TGFairness

\* ------------------------------------------------- RefCount under test
\* One RefCount, starting from its zero value, with or without an Action;
\* Retain and Release are one atomic add each.  A panic is recovered by the
\* caller, which leaves the counter as the add left it.  retains, releases,
\* ran (how often the Action ran) and panicked only observe.
RCInit ==
  \E a \in BOOLEAN :
    rc = [count |-> 0, action |-> a, retains |-> 0, releases |-> 0, ran |-> 0,
          op |-> "none", res |-> "none", panicked |-> FALSE]

RCFrame == UNCHANGED <<mxVars, lmVars, wlVars, tgVars, swVars, clVars, cbVars>>

RcCallsMade == rc.retains + rc.releases

\* RefCount.Retain
RcRetain ==
  /\ RcCallsMade < MaxRefCalls
  /\ LET panics == RefCountRetainPanics(rc.count)
     IN rc' = [rc EXCEPT !.count = RefCountRetain(@), !.retains = @ + 1,
                         !.op = "Retain",
                         !.res = IF panics THEN "panic: retaining released ref count"
                                 ELSE "ok",
                         !.panicked = @ \/ panics]
  /\ RCFrame

\* RefCount.Release
RcRelease ==
  /\ RcCallsMade < MaxRefCalls
  /\ LET free == RefCountReleaseFree(rc.count)
         panics == RefCountReleasePanics(rc.count)
     IN rc' = [rc EXCEPT !.count = RefCountRelease(@), !.releases = @ + 1,
                         !.op = "Release",
                         !.ran = IF free /\ rc.action THEN @ + 1 ELSE @,
                         !.res = IF free THEN "true"
                                 ELSE IF panics THEN "panic: ref count released too often"
                                 ELSE "false",
                         !.panicked = @ \/ panics]
  /\ RCFrame

RCNext == RcRetain \/ RcRelease

RefCountInit == RCInit /\ MxIdle /\ LMIdle /\ WLIdle /\ TGIdle /\ SWIdle /\ CLIdle /\ CBIdle

SpecRefCount == RefCountInit /\ [][RCNext]_vars

\* ------------------------------------------------- LockManager: properties
InFlight(h) == hnd[h].pc \notin {"new", "idle"}

\* the handle whose Unlock has returned: it has a session and no entry
Unlocked(h) == hnd[h].pc = "idle" /\ hnd[h].session # None /\ hnd[h].entry = None

LockedSessions(k) == {s \in SessionIds : ses[s].isLocked /\ ses[s].key = k}

\* C1: for every key at most one LockSession created for it has its locked
\* flag set, in every reachable state.
C1_MutualExclusion == \A k \in Keys : Cardinality(LockedSessions(k)) <= 1

\* C3: once every handle has released what it acquired and no operation is in
\* flight, the table has no entry for any key.
C3_TableEmptyWhenReleased ==
  ((\A h \in Handles : ~InFlight(h) /\ hnd[h].entry = None)
     /\ (\A f \in Forcers : frc[f].pc = "idle"))
  => \A k \in Keys : table[k] = None

ClosingDone(s) ==
  \/ \E h \in Handles : hnd[h].pc = "u_done" /\ hnd[h].session = s
  \/ \E f \in Forcers : frc[f].pc = "f_done" /\ frc[f].session = s

\* the holder of session s has called Unlock and got past Unlocked.Close()
UnlockSignalled(s) ==
  \E h \in Handles :
    /\ hnd[h].session = s
    /\ \/ hnd[h].pc \in {"u_done", "u_unlink"}
       \/ Unlocked(h)

ForceUnlockReturned(f) ==
  frc[f].pc = "idle" /\ frc[f].op = "ForceUnlock" /\ frc[f].res = "ok"

\* C5: after ForceUnlock(key) returns for a key held by session s, LockLost
\* and Done of s have fired, the holder's IsLocked() is false, and the Mutex
\* is free for, or already taken by, another handle although the revoked
\* holder has not called Unlock.
C5_ForceUnlockRevokes ==
  \A f \in Forcers :
    ForceUnlockReturned(f) =>
      LET s == frc[f].session
      IN /\ s # None
         /\ ses[s].lost /\ ses[s].done /\ ~ses[s].isLocked
         /\ \A h \in Handles :
              hnd[h].session = s =>
                /\ ~IsLocked(h)
                /\ hnd[h].entry # None =>
                     /\ ent[hnd[h].entry].owner # h
                     /\ ent[hnd[h].entry].session # s
                     /\ (ent[hnd[h].entry].owner = None
                           => ChanRecvReady(ent[hnd[h].entry].mutex))

\* ForceUnlock has returned, the revoked holder has not called Unlock, and
\* another handle holds the key with its own locked session
C5_Witness ==
  \E f \in Forcers, h, g \in Handles :
    /\ ForceUnlockReturned(f)
    /\ hnd[h].session = frc[f].session
    /\ hnd[h].pc = "idle" /\ hnd[h].entry # None
    /\ g # h /\ hnd[g].entry = hnd[h].entry
    /\ ent[hnd[g].entry].owner = g
    /\ ent[hnd[g].entry].session = hnd[g].session
    /\ IsLocked(g)

\* handle h makes the step that calls one of the acquire variants
AcquireCalled(h) ==
  \E op \in AcquireOps, dur \in Durations : CallAcquire(h, op, dur)

\* C6: an acquire call on a handle that has a session not yet ended by Unlock
\* panics before it touches the table, the entries or the Mutex; a handle is
\* never past the session check of an acquire while it has such a session.
C6_DoubleAcquirePanics ==
  /\ [][\A h \in Handles :
          (AcquireCalled(h) /\ hnd[h].session # None /\ hnd[h].entry # None)
            => /\ hnd'[h].res = "panic: active lock session"
               /\ hnd'[h].pc = "idle"
               /\ UNCHANGED <<mu, table, ent, ses>>]_vars
  /\ [](\A h \in Handles :
          hnd[h].pc \in {"link", "mutex", "expired", "unlink", "mark"}
            => hnd[h].session = None)

\* an acquire panicked on a handle whose session was force-revoked and not
\* yet released
C6_Witness ==
  \E h \in Handles :
    /\ hnd[h].res = "panic: active lock session"
    /\ hnd[h].entry # None
    /\ ses[hnd[h].session].lost

\* C7: a handle that acquired and then called Unlock has no active session:
\* a following acquire on it does not fail fatally.
C7_ReacquireAfterUnlock ==
  \A h \in Handles :
    Unlocked(h) => hnd[h].res # "panic: active lock session"

\* the steps of a handle's Unlock outside the section that releases the
\* Mutex: a doUnlock that finds another (or no) session recorded, and
\* everything after the section
UnlockOutsideRelease(h) ==
  \/ hnd[h].pc = "u_enter" /\ ent[hnd[h].entry].session # hnd[h].session
  \/ hnd[h].pc \in {"u_store", "u_kind", "u_done", "u_unlink"}

\* the handle whose session the goroutine about to release the Mutex took
\* from the entry
Releasing(e) ==
  {hnd[h].session : h \in {g \in Handles : hnd[g].pc = "u_mutex" /\ hnd[g].entry = e}}
    \cup {frc[f].session : f \in {g \in Forcers : frc[g].pc = "f_mutex" /\ frc[g].entry = e}}

\* C8: the Unlock of a holder whose session is not the recorded one neither
\* releases the Mutex nor changes the recorded session or any other session,
\* and the Mutex is released at most once per acquisition: whoever is about
\* to release it finds it taken, by the handle whose session it revokes.
C8_UnlockAfterRevocation ==
  /\ [][\A h \in Handles :
          (UnlockOutsideRelease(h) /\ hnd'[h] # hnd[h])
            => /\ \A s \in SessionIds \ {hnd[h].session} : ses'[s] = ses[s]
               /\ LET e == hnd[h].entry
                  IN table'[ent[e].key] = e =>
                       /\ ent'[e].session = ent[e].session
                       /\ ent'[e].mutex = ent[e].mutex
                       /\ ent'[e].owner = ent[e].owner]_vars
  /\ [](\A e \in EntryIds :
          /\ Cardinality(Releasing(e)) <= 1
          /\ \A s \in Releasing(e) :
               /\ ent[e].mutex.len = 0
               /\ ent[e].owner # None
               /\ hnd[ent[e].owner].session = s)

\* a force-revoked holder has finished Unlock while the key is held by
\* another handle, whose session is still recorded and locked
C8_Witness ==
  \E h, g \in Handles :
    /\ Unlocked(h) /\ hnd[h].res = "ok" /\ ses[hnd[h].session].lost
    /\ g # h /\ hnd[g].key = hnd[h].key /\ hnd[g].entry # None
    /\ ent[hnd[g].entry].owner = g
    /\ ent[hnd[g].entry].session = hnd[g].session
    /\ ent[hnd[g].entry].mutex.len = 0
    /\ IsLocked(g)

\* C9: whenever TryLock or LockTimeout reports false, or LockContext an
\* error, no session was created for the handle and its reference to the
\* entry has been released.
C9_FailedAcquireLeavesNothing ==
  \A h \in Handles :
    (hnd[h].pc = "idle" /\ hnd[h].res = "fail")
      => hnd[h].session = None /\ hnd[h].entry = None

\* C10: ForceUnlock returns without failing, whether or not the key has an
\* entry and the entry a recorded session.
C10_ForceUnlockNeverFails ==
  \A f \in Forcers :
    (frc[f].pc = "idle" /\ frc[f].op = "ForceUnlock")
      => frc[f].res \in {"none", "ok"}

\* C11: ForceUnlockAll returns without failing whatever the tracked keys
\* record: a tracked key that has no recorded session is skipped.
C11_ForceUnlockAllSkips ==
  \A f \in Forcers :
    (frc[f].pc = "idle" /\ frc[f].op = "ForceUnlockAll")
      => frc[f].res \in {"none", "ok"}

\* the entries a handle, a ForceUnlock in flight or the table refers to
Referenced == EntriesInUse(table, hnd, frc)

\* C34: every handle linked to a key refers to the entry the table holds
\* under that key, and so does every ForceUnlock in flight: no entry is
\* deleted from the table while it is referenced, and no two entries for one
\* key exist side by side.
C34_OneEntryPerKey ==
  /\ \A e \in Referenced : table[ent[e].key] = e
  /\ \A h \in Handles :
       hnd[h].entry # None => table[hnd[h].key] = hnd[h].entry
  /\ \A f \in Forcers :
       frc[f].entry # None /\ frc[f].op = "ForceUnlock" =>
         table[frc[f].key] = frc[f].entry

\* both handles are linked to one key, one of them holds it, and a
\* ForceUnlock in flight refers to the same entry
C34_Witness ==
  \E h1, h2 \in Handles : \E f \in Forcers :
    /\ h1 # h2
    /\ hnd[h1].entry # None
    /\ hnd[h1].entry = hnd[h2].entry
    /\ IsLocked(h1)
    /\ frc[f].op = "ForceUnlock"
    /\ frc[f].entry = hnd[h1].entry

\* an operation holds LockManager.mu over several steps only in ForceUnlockAll
InForceUnlockAll(f) ==
  /\ frc[f].op = "ForceUnlockAll"
  /\ frc[f].pc \in {"fa_loop", "f_mutex", "f_store", "f_kind", "f_done"}

\* the operations that are inside the section guarded by entry e's muInternal
InInternalSection(e) ==
  {h \in Handles : hnd[h].pc = "u_mutex" /\ hnd[h].entry = e}
    \cup {f \in Forcers : frc[f].pc = "f_mutex" /\ frc[f].entry = e}

\* an Unlock, ForceUnlock or ForceUnlockAll is waiting for LockManager.mu
WaitsForTableLock ==
  \/ \E h \in Handles : hnd[h].pc = "u_unlink"
  \/ \E f \in Forcers : frc[f].pc \in {"fu_find", "fu_release", "fa_lock"}

\* C35: the LockManager never deadlocks on its own locks: the release of the
\* user-visible Mutex inside an entry's internal section never blocks, every
\* locked internal lock and the locked table lock have an operation in flight
\* that is going to unlock them, so that Unlock, ForceUnlock and
\* ForceUnlockAll never wait for a lock nobody will release
C35_OwnLocksNeverDeadlock ==
  /\ \A h \in Handles : hnd[h].pc = "u_mutex" => ENABLED UnlockMutex(h)
  /\ \A f \in Forcers : frc[f].pc = "f_mutex" => ENABLED ForceMutex(f)
  /\ \A e \in EntryIds : ent[e].muInternal => InInternalSection(e) # {}
  /\ mu => \E f \in Forcers : InForceUnlockAll(f)

\* the part of C35 that is about the Mutex and the internal locks only
C35_InternalSectionsNeverBlock ==
  /\ \A h \in Handles : hnd[h].pc = "u_mutex" => ENABLED UnlockMutex(h)
  /\ \A f \in Forcers : frc[f].pc = "f_mutex" => ENABLED ForceMutex(f)
  /\ \A e \in EntryIds : ent[e].muInternal => InInternalSection(e) # {}

\* an Unlock waits for the table lock that no operation in flight holds
C35_UnlockStuck ==
  /\ mu
  /\ \A f \in Forcers : ~InForceUnlockAll(f)
  /\ \E h \in Handles : hnd[h].pc = "u_unlink"

\* h is parked in Lock, or in LockTimeout with its timer still running, on
\* the Mutex of a key another handle holds, and that handle has called Unlock
BlockedWhileUnlock(h) ==
  /\ hnd[h].pc = "mutex"
  /\ hnd[h].op = "Lock" \/ (hnd[h].op = "LockTimeout" /\ hnd[h].dur # 0)
  /\ \E g \in Handles \ {h} :
       /\ hnd[g].pc = "u_enter"
       /\ hnd[g].entry = hnd[h].entry
       /\ ent[hnd[h].entry].owner = g

\* h has received the Mutex token
TokenReceived(h) == hnd[h].pc = "mark"

\* the timer of h's LockTimeout has fired: the timeout was not long enough
TimerFired(h) == hnd[h].op = "LockTimeout" /\ hnd[h].pc = "expired"

\* the token went to another handle blocked on the same key
OtherReceived(h) ==
  \E o \in Handles \ {h} : hnd[o].entry = hnd[h].entry /\ hnd[o].pc = "mark"

\* the handles that answer for the locked Mutex of entry e
Answerable(e) ==
  {h \in Handles : /\ hnd[h].entry = e
                    /\ \/ hnd[h].pc \in {"mark", "mark_entry"}
                       \/ hnd[h].session # None /\ ent[e].session = hnd[h].session}

\* C33: a handle blocked in Lock (or in LockTimeout whose timer does not fire
\* first) on a key another handle holds acquires the key once the holder has
\* called Unlock, under fair scheduling (with several handles blocked on the
\* key, one of them does); and the lock is never lost: a locked Mutex always
\* has a handle that holds it or an unlock that is releasing it
C33_BlockedHandleAcquires ==
  /\ \A h \in Handles :
       BlockedWhileUnlock(h) ~> (TokenReceived(h) \/ TimerFired(h) \/ OtherReceived(h))
  /\ [](\A e \in Referenced :
          ent[e].mutex.len = 0 => Answerable(e) # {} \/ InInternalSection(e) # {})

\* the handle that was blocked during the holder's Unlock holds the key now
C33_Witness ==
  \E h \in Handles : \E g \in Handles \ {h} :
    /\ hnd[h].op = "Lock"
    /\ hnd[h].pc = "mark"
    /\ hnd[g].pc \in {"u_store", "u_kind", "u_done", "u_unlink"}
    /\ hnd[g].entry = hnd[h].entry
    /\ ses[hnd[g].session].unlocked = FALSE
    /\ forceCalls = 0

\* ------------------------------------------------- Mutex: properties
\* goroutine c is inside a call of op that has not returned
Pending(c, op) == cli[c].pc = "wait" /\ cli[c].op = op

\* the pending call of c cannot take any branch now
CallBlocked(c) ==
  cli[c].pc = "wait" /\ ~ENABLED (ClientStep(c) \/ ClientUnlockStep(c))

\* the channel holds the token
TokenPresent == ~mtx.nil /\ mtx.len > 0

\* the channel after the token was received from it
TokenTaken == [mtx EXCEPT !.len = @ - 1]

\* the pending call of c returns true (nil), having received the token
ReturnsAcquired(c) ==
  /\ TokenPresent
  /\ mtx' = TokenTaken
  /\ cli'[c] = [cli[c] EXCEPT !.pc = "idle", !.holds = TRUE, !.res = "ok"]

\* the pending call of c returns false (an error), the channel untouched
ReturnsFailed(c) ==
  /\ mtx' = mtx
  /\ ~cli[c].holds
  /\ cli'[c] = [cli[c] EXCEPT !.pc = "idle", !.res = "fail"]

\* C12: Unlock by a caller that does not hold the mutex panics: it does not
\* block, and it does not return after putting a token into the channel.
C12_UnlockUnheldPanics ==
  /\ [](\A c \in Clients :
          (Pending(c, "Unlock") /\ ~cli[c].holds) => ~CallBlocked(c))
  /\ [][\A c \in Clients :
          (Pending(c, "Unlock") /\ ~cli[c].holds /\ cli'[c] # cli[c])
            => /\ cli'[c].res = "panic: unlock of unlocked mutex"
               /\ mtx' = mtx]_vars

\* C13: LockTimeout(0) and TryLock take the same single step: with the token
\* present they receive it and return true, otherwise they return false and
\* leave the channel as it is; neither is ever blocked, on any Mutex.
C13_LockTimeoutZeroIsTryLock ==
  /\ [](\A c \in Clients :
          (Pending(c, "TryLock") \/ (Pending(c, "LockTimeout") /\ cli[c].dur = 0))
            => ~CallBlocked(c))
  /\ [][\A c \in Clients :
          ((Pending(c, "TryLock") \/ (Pending(c, "LockTimeout") /\ cli[c].dur = 0))
             /\ cli'[c] # cli[c])
            => IF TokenPresent THEN ReturnsAcquired(c) ELSE ReturnsFailed(c)]_vars

\* LockTimeout(0) has returned false on a mutex from MakeMutex that another
\* goroutine holds
C13_Witness ==
  \E c, d \in Clients :
    /\ cli[c].pc = "idle" /\ cli[c].op = "LockTimeout" /\ cli[c].dur = 0
    /\ cli[c].res = "fail" /\ ~cli[c].holds
    /\ cli[d].holds /\ ~mtx.nil /\ mtx.len = 0

\* C14: a LockTimeout(d) with d > 0 either receives the token and returns
\* true, or sees its timer fire and goes to one final attempt; the final
\* attempt is never blocked, returns true with the token when the token is
\* there, and returns false, the channel untouched, only when it is not.
C14_LockTimeoutFinalAttempt ==
  /\ [](\A c \in Clients : Pending(c, "LockTimeoutExpired") => ~CallBlocked(c))
  /\ [][\A c \in Clients :
          (((Pending(c, "LockTimeout") /\ cli[c].dur > 0)
              \/ Pending(c, "LockTimeoutExpired")) /\ cli'[c] # cli[c])
            => \/ ReturnsAcquired(c)
               \/ /\ cli[c].op = "LockTimeout"
                  /\ cli'[c] = [cli[c] EXCEPT !.op = "LockTimeoutExpired"]
                  /\ mtx' = mtx
               \/ /\ cli[c].op = "LockTimeoutExpired"
                  /\ ~TokenPresent
                  /\ ReturnsFailed(c)]_vars

\* the timer of a LockTimeout(d > 0) had fired, the holder then released the
\* mutex, and the final attempt took the token
C14_Witness ==
  \E c, d \in Clients :
    /\ cli[c].pc = "idle" /\ cli[c].op = "LockTimeoutExpired"
    /\ cli[c].res = "ok" /\ cli[c].holds
    /\ d # c /\ cli[d].pc = "idle" /\ cli[d].op = "Unlock" /\ cli[d].res = "ok"
    /\ ~mtx.nil /\ mtx.len = 0

\* C15: LockContext returns nil exactly when it received the token, returns
\* the source's error only when the source is cancelled and then without
\* touching the channel, and with the source cancelled and no token in the
\* channel it is not blocked (so it returns the error).
C15_LockContextResult ==
  /\ [](\A c \in Clients :
          (Pending(c, "LockContext") /\ cli[c].ctx /\ ~TokenPresent)
            => ~CallBlocked(c))
  /\ [][\A c \in Clients :
          (Pending(c, "LockContext") /\ cli'[c].pc = "idle")
            => \/ ReturnsAcquired(c)
               \/ cli[c].ctx /\ ReturnsFailed(c)]_vars

\* LockContext has returned the error of its cancelled source on a mutex
\* from MakeMutex that another goroutine holds
C15_Witness ==
  \E c, d \in Clients :
    /\ cli[c].pc = "idle" /\ cli[c].op = "LockContext" /\ cli[c].ctx
    /\ cli[c].res = "fail" /\ ~cli[c].holds
    /\ cli[d].holds /\ ~mtx.nil /\ mtx.len = 0

\* C16: a LockContext that returns while the token is in the channel returns
\* nil and holds the mutex, whether or not its source is cancelled.
C16_LockContextPrefersToken ==
  [][\A c \in Clients :
       (Pending(c, "LockContext") /\ TokenPresent /\ cli'[c].pc = "idle")
         => cli'[c].res = "ok" /\ cli'[c].holds]_vars

\* C17: LockTimeout with a negative duration on the zero value of Mutex is
\* not blocked.
C17_ZeroValueNegativeTimeout ==
  \A c \in Clients :
    (mtx.nil /\ Pending(c, "LockTimeout") /\ cli[c].dur < 0)
      => ~CallBlocked(c)

\* ------------------------------------------------- Waitlist: properties
ActiveWaiters == {w \in WaiterIds : wtr[w].state = "Active"}

\* the waiter of S that was enqueued first
Oldest(S) == CHOOSE w \in S : \A v \in S : w <= v

\* no waiter outside S changes its state or its ready channel in this step
OnlyChanges(S) ==
  \A v \in WaiterIds \ S :
    wtr'[v].state = wtr[v].state /\ wtr'[v].ready = wtr[v].ready

\* this step wakes the oldest Active waiter, if there is one, and no other
WakesOldest(S) ==
  IF ActiveWaiters = {} THEN OnlyChanges(S)
  ELSE LET w == Oldest(ActiveWaiters)
       IN /\ wtr'[w].state = "Notified"
          /\ wtr'[w].ready
          /\ OnlyChanges(S \cup {w})

\* C18: every Notify wakes the Active waiter that was enqueued first and no
\* other, and Cancel of an Active waiter takes out that waiter only, so n
\* Notify calls wake the waiters still Active in their order of arrival.
C18_NotifyWakesOldest ==
  /\ [][WlNotify => WakesOldest({})]_vars
  /\ [][\A w \in WaiterIds :
          (WlCancel(w) /\ wtr[w].state = "Active")
            => /\ wtr'[w].state = "Cancelled"
               /\ OnlyChanges({w})]_vars

\* C19: Cancel of a Notified waiter enqueued with propagateCancel = true
\* leaves it Cancelled and wakes the oldest Active waiter, if there is one,
\* in the same call.
C19_CancelForwardsToken ==
  [][\A w \in WaiterIds :
       (WlCancel(w) /\ wtr[w].state = "Notified" /\ wtr[w].propagateCancel)
         => /\ wtr'[w].state = "Cancelled"
            /\ WakesOldest({w})]_vars

\* C20: Broadcast moves every Active waiter to Broadcasted with its ready
\* channel closed and leaves the list empty, head and tail both nil.
C20_BroadcastClearsList ==
  [][WlBroadcast
       => /\ \A w \in ActiveWaiters :
               wtr'[w].state = "Broadcasted" /\ wtr'[w].ready
          /\ wl'.head = None
          /\ wl'.tail = None]_vars

\* the waiters reached from w by following next, those in seen left out
RECURSIVE ReachedFrom(_, _)
ReachedFrom(w, seen) ==
  IF w = None \/ w \in seen THEN seen
  ELSE ReachedFrom(wtr[w].next, seen \cup {w})

\* the waiters linked in the list
Linked == ReachedFrom(wl.head, {})

\* C21: every waiter linked in the list is Active, and neither Notify nor
\* Broadcast nor Cancel ever ends in the fatal 'non active waiter in list'.
C21_LinkedWaitersActive ==
  /\ \A w \in Linked : wtr[w].state = "Active"
  /\ wcall.res # "panic: non active waiter in list"

\* C22: Cancel of a Notified waiter enqueued with propagateCancel = false
\* changes that waiter's state to Cancelled and nothing else: no ready
\* channel is closed, no other waiter changes, the list keeps its links.
C22_CancelConsumesToken ==
  [][\A w \in WaiterIds :
       (WlCancel(w) /\ wtr[w].state = "Notified" /\ ~wtr[w].propagateCancel)
         => /\ wtr' = [wtr EXCEPT ![w].state = "Cancelled"]
            /\ wl' = wl
            /\ wcall'.res = "ok"]_vars

\* a Notified waiter without propagation was cancelled while two younger
\* waiters are Active and linked, the older of them at the head
C22_Witness ==
  /\ wcall.op = "Cancel" /\ wcall.was = "Notified" /\ wcall.res = "ok"
  /\ wtr[1].state = "Cancelled" /\ ~wtr[1].propagateCancel /\ wcall.w = 1
  /\ wtr[2].state = "Active" /\ wtr[3].state = "Active"
  /\ wl.head = 2 /\ wl.tail = 3 /\ Linked = {2, 3}

\* C23: a Waiter whose WaitContext returned the source's error, or whose
\* WaitTimeout returned false, is not linked in the list.
C23_AbandonedWaiterUnlinked ==
  \A w \in WaiterIds :
    (wgo[w].pc = "done" /\ wgo[w].res = "fail") => w \notin Linked

\* the step is a call of Cancel on waiter w
CancelStep(w) == wcall'.op = "Cancel" /\ wcall'.w = w /\ w \in Created

\* the waiters the step takes out of the Active state
Woken == {u \in WaiterIds : wtr[u].state = "Active" /\ wtr'[u].state # "Active"}

\* C39: the channel ready of a waiter is closed exactly once, in the step that
\* takes the waiter out of the Active state: a waiter is not Active exactly
\* when its channel is closed, no step closes a closed channel, and a closed
\* channel stays closed.
C39_ReadyClosedOnce ==
  /\ [](\A w \in Created : wtr[w].ready <=> wtr[w].state # "Active")
  /\ [](wcall.res # "panic: close of closed channel")
  /\ [][\A w \in Created :
          /\ wtr[w].ready => wtr'[w].ready
          /\ ~wtr[w].ready /\ wtr'[w].ready => w \in Woken]_vars

\* one waiter was notified, one cancelled while Active, one broadcast, and
\* the channel of each is closed
C39_Witness ==
  /\ \E w \in Created : wtr[w].state = "Notified" /\ wtr[w].ready
  /\ \E w \in Created : wtr[w].state = "Cancelled" /\ wtr[w].ready
  /\ \E w \in Created : wtr[w].state = "Broadcasted" /\ wtr[w].ready

\* C40: Cancel on a Cancelled or Broadcasted waiter changes neither the list
\* nor any waiter; a Cancel on a Notified waiter with propagateCancel wakes at
\* most one other waiter and, when it wakes one, leaves its own waiter
\* Cancelled, so that a second Cancel forwards nothing more.
C40_CancelIdempotent ==
  [][\A w \in WaiterIds :
       CancelStep(w) =>
         /\ wtr[w].state \in {"Cancelled", "Broadcasted"} =>
              wl' = wl /\ wtr' = wtr
         /\ wtr[w].state = "Notified" /\ wtr[w].propagateCancel =>
              /\ Cardinality(Woken) <= 1
              /\ Woken # {} => wtr'[w].state = "Cancelled"]_vars

\* the first Cancel of a Notified waiter passed the token on to the next
\* waiter; the second Cancel found it Cancelled and left the third waiter
\* Active
C40_Witness ==
  /\ wcall.op = "Cancel"
  /\ wcall.w \in wcall.fwd
  /\ wcall.was = "Cancelled"
  /\ wcall.res = "ok"
  /\ Cardinality({u \in Created : wtr[u].state = "Notified"}) = 1
  /\ \E u \in Created : wtr[u].state = "Active"

\* ------------------------------------------------- RefCount: properties
\* the step is a call of Release / of Retain
ReleaseStep == rc'.releases = rc.releases + 1

RetainStep == rc'.retains = rc.retains + 1

\* the calls made so far brought the counter to the free state: one Release
\* more than Retains
ReachedFree == rc.releases = rc.retains + 1

\* C37: from the zero value and with r Retain calls made, Release returns
\* true on Release number r + 1, when the counter wraps from 0 to 2^32 - 1
\* (read as -1), and false on every earlier one; a Release and a Retain on the
\* free state panic.
C37_ReleaseFreesAfterRetains ==
  /\ [](~rc.panicked => (ReachedFree <=> rc.count = RefCountFree))
  /\ [][ReleaseStep /\ ~rc.panicked =>
          /\ rc'.releases <= rc.retains => rc'.res = "false"
          /\ rc'.releases = rc.retains + 1 =>
               rc'.res = "true" /\ rc.count = 0 /\ rc'.count = RefCountFree
          /\ ReachedFree => rc'.res = "panic: ref count released too often"]_vars
  /\ [][RetainStep /\ ~rc.panicked /\ ReachedFree =>
          rc'.res = "panic: retaining released ref count"]_vars

\* two Retains, two Releases that returned false, and the third Release that
\* returned true
C37_Witness ==
  /\ rc.retains = 2
  /\ rc.releases = 3
  /\ rc.op = "Release"
  /\ rc.res = "true"
  /\ rc.count = RefCountFree
  /\ ~rc.panicked

\* C36: Waiter.Cancel runs the onCancel callback only after the list
\* bookkeeping is finished (its waiter is Cancelled or Broadcasted) and l.mu
\* is released by the cancelling goroutine, so a callback that calls Notify on
\* the same Waitlist is not stopped by a lock its own goroutine holds:
\* whoever holds l.mu can take its next step.
C36_CallbackAfterUnlock ==
  \A g \in Cancellers :
    /\ wcb[g].pc = "onCancel" =>
         /\ lmu # g
         /\ wtr[wcb[g].w].state \in {"Cancelled", "Broadcasted"}
    /\ lmu = g => ENABLED (CbCancelBody(g) \/ CbCallbackNotify(g))
    /\ wcb[g].pc = "onCancel" /\ lmu = None => ENABLED CbCallbackLock(g)

\* the callback of a cancelled waiter holds l.mu inside Notify, which its
\* goroutine had released after cancel, while another waiter is still Active
C36_Witness ==
  \E g \in Cancellers :
    /\ wcb[g].pc = "notify"
    /\ lmu = g
    /\ wtr[wcb[g].w].state = "Cancelled"
    /\ \E u \in Created : wtr[u].state = "Active"

\* ------------------------------------------------- SafeWaitGroup: properties
\* the step is a call made by p
SwStep(p) == swp'[p] # swp[p]

\* Close or Wait has been called
CloseCalled == \E q \in SwProcs : swp[q].closer

\* the units added by successful Adds and not given back yet
RECURSIVE UnitsOf(_)
UnitsOf(S) ==
  IF S = {} THEN 0
  ELSE LET q == CHOOSE x \in S : TRUE IN swp[q].units + UnitsOf(S \ {q})

Outstanding == UnitsOf(SwProcs)

C38_WaitCoversSuccessfulAdds ==
  /\ [][\A p \in SwProcs :
          SwStep(p) /\ swp'[p].op = "Add" /\ swp'[p].n >= 0 =>
            \/ /\ swp'[p].res = "ErrGroupClosed"
               /\ swg'.count = swg.count
               /\ CloseCalled
            \/ /\ swp'[p].res = "nil"
               /\ swg'.count = swg.count + swp'[p].n
               /\ ~CloseCalled]_vars
  /\ [][\A p \in SwProcs :
          swp[p].pc = "waiting" /\ swp'[p].pc # "waiting" =>
            Outstanding = 0]_vars
  /\ [](\A p \in SwProcs :
          swp[p].pc = "waiting" /\ Outstanding > 0 => ~ENABLED SwWaitReturn(p))

\* one goroutine is blocked in Wait because of a unit the other one added
\* before; the other one's later Add was refused
C38_Witness ==
  \E p, q \in SwProcs :
    /\ swp[p].pc = "waiting"
    /\ swp[q].units > 0
    /\ swp[q].op = "Add" /\ swp[q].res = "ErrGroupClosed"
    /\ ~ENABLED SwWaitReturn(p)

\* ------------------------------------------------- Cell: properties
\* C32: a Wait call that is blocked because no update was pending can return
\* once a Set has come after it: the channel it waits for is closed by that
\* Set, also when another Wait call sharing the channel was cancelled first.
C32_SetUnblocksWaiters ==
  \A p \in CellProcs :
    cwt[p].pc = "select" /\ cwt[p].since < cell.writeID =>
      cell.closed[cwt[p].ch]

\* ------------------------------------------------- TaskGroup: properties
\* the step is a call of Go: one more task slot is used
GoStep == Submitted' # Submitted

\* the tasks the step submitted
NewTasks == {t \in TaskIds : tsk[t].pc = "none" /\ tsk'[t].pc # "none"}

\* the step is task t ending (its quit handling)
QuitStep(t) == tsk[t].pc = "quit" /\ tsk'[t].pc # "quit"

\* C24: once Stop has been called, every later Go returns ErrGroupClosed and
\* starts no task (the task count stays as it was), also when no task was
\* ever submitted before Stop.
C24_GoAfterStopRejected ==
  [][tg.stopCalled /\ GoStep =>
       /\ \A t \in NewTasks : /\ tsk'[t].pc = "rejected"
                              /\ tsk'[t].err = "ErrGroupClosed"
       /\ tg'.wg.count = tg.wg.count]_vars

\* Stop was called on a group that never had a task, and the first Go came
\* after it
C24_Witness ==
  /\ tg.stopCalled
  /\ tsk[1].pc = "rejected"
  /\ tsk[1].err = "ErrGroupClosed"

\* C25: a task ending with the cancellation sentinel is never recorded in the
\* error list and, under StopOnError, neither consults the stop predicate nor
\* stops the group; Stop then returns no error of such a task.
C25_CancelIsNoError ==
  /\ [][\A t \in TaskIds :
          QuitStep(t) /\ tsk[t].err = "canceled" =>
            /\ tg'.errs = tg.errs
            /\ tg.policy = "StopOnError" =>
                 /\ tg'.consulted = tg.consulted
                 /\ tg'.cancelled = tg.cancelled]_vars
  /\ [](\A c \in Callers :
          tcl[c].pc = "returned" =>
            \A i \in 1..Len(tcl[c].res) :
              tsk[tcl[c].res[i][1]].fn # "cancel")

\* under StopOnError a task ended with context.Canceled, the group was not
\* stopped by it and the predicate not consulted, and a later Stop returned no
\* error
C25_Witness ==
  /\ tg.policy = "StopOnError"
  /\ tsk[1].fn = "cancel"
  /\ tsk[1].pc = "ended"
  /\ ~tg.consulted
  /\ \E c \in Callers : /\ tcl[c].pc = "returned"
                        /\ tcl[c].op = "Stop"
                        /\ tcl[c].res = <<>>

\* the tasks that are still running or being ended
Unfinished == {t \in TaskIds : tsk[t].pc \in {"running", "quit"}}

\* how often e is in the sequence q
Occurrences(q, e) == Cardinality({i \in 1..Len(q) : q[i] = e})

\* no recorded error was evicted from the list
NothingEvicted == Len(tg.errs) = Len(tg.hist)

\* C26: under StopOnError with an accepting predicate, a task ending with a
\* non-cancellation error fires the group's source, so that a task blocked on
\* it ends too, and the aggregate Stop returns holds that error exactly once.
C26_StopOnErrorStopsGroup ==
  /\ [][\A t \in TaskIds :
          /\ QuitStep(t)
          /\ tsk[t].err = "error"
          /\ tg.policy = "StopOnError"
          /\ tg.accepts
          => tg'.cancelled /\ tsk'[t].pc = "ended"]_vars
  /\ [](\A c \in Callers : \A t \in TaskIds :
          /\ tcl[c].pc = "returned"
          /\ tcl[c].op = "Stop"
          /\ tg.policy = "StopOnError"
          /\ tsk[t].pc = "ended"
          /\ tsk[t].err = "error"
          /\ NothingEvicted
          => Occurrences(tcl[c].res, ErrorOf(t, tsk[t].run)) = 1)
  /\ ((/\ tg.policy = "StopOnError"
       /\ tg.accepts
       /\ \E t \in TaskIds : tsk[t].pc = "quit" /\ tsk[t].err = "error")
      ~> (tg.cancelled /\ Unfinished = {}))

\* one task failed while another waited for the source; the failure, not
\* Stop, fired the source, both ended, and Stop returned that one error
C26_Witness ==
  /\ tg.policy = "StopOnError"
  /\ tg.accepts
  /\ tg.firedBy = "quit"
  /\ \E t, u \in TaskIds :
       /\ tsk[t].fn = "err" /\ tsk[t].pc = "ended"
       /\ tsk[u].fn = "block" /\ tsk[u].pc = "ended"
       /\ \E c \in Callers : /\ tcl[c].pc = "returned"
                             /\ tcl[c].op = "Stop"
                             /\ tcl[c].res = <<ErrorOf(t, 1)>>

\* C27: under RestartOnError a function that returns a non-cancellation
\* error is run again by the same task and one that returns nil is not; a
\* function that fails first and succeeds next runs exactly twice, and Wait
\* returns only after its second run has ended.
C27_RestartOnError ==
  /\ [][\A t \in TaskIds :
          QuitStep(t) /\ tg.policy = "RestartOnError" /\ ~tg.cancelled =>
            /\ tsk[t].err = "error" =>
                 /\ tsk'[t].pc = "running"
                 /\ tsk'[t].run = tsk[t].run + 1
                 /\ tsk'[t].fn = tsk[t].fn
            /\ tsk[t].err = "nil" =>
                 /\ tsk'[t].pc = "ended"
                 /\ tsk'[t].run = tsk[t].run]_vars
  /\ [](\A t \in TaskIds :
          /\ tg.policy = "RestartOnError"
          /\ ~tg.cancelled
          /\ tsk[t].fn = "errOnce"
          => /\ tsk[t].pc = "ended" => tsk[t].run = 2
             /\ \A c \in Callers :
                  tcl[c].pc = "returned" /\ tsk[t].pc # "none" =>
                    tsk[t].pc \in {"ended", "rejected"})

\* the function failed on its first run, was run again, succeeded, and only
\* then Wait returned
C27_Witness ==
  /\ tg.policy = "RestartOnError"
  /\ ~tg.cancelled
  /\ tsk[1].fn = "errOnce"
  /\ tsk[1].pc = "ended"
  /\ tsk[1].run = 2
  /\ tg.hist = <<ErrorOf(1, 1)>>
  /\ \E c \in Callers : tcl[c].pc = "returned" /\ tcl[c].op = "Wait"

\* the last n elements of the sequence q (all of q when it is shorter)
LastN(q, n) == IF Len(q) <= n THEN q ELSE SubSeq(q, Len(q) - n + 1, Len(q))

\* C28: with the error cap set to N the retained list holds at most N errors
\* and is the N most recently recorded ones in recording order (the oldest is
\* evicted first): with N = 3, five failures leave the last three, in order.
C28_ErrorCapKeepsMostRecent ==
  IF tg.maxErrors > 0
    THEN /\ Len(tg.errs) <= tg.maxErrors
         /\ tg.errs = LastN(tg.hist, tg.maxErrors)
    ELSE tg.errs = tg.hist

\* five failures were recorded under a cap of 3 and the list is the last three
C28_Witness ==
  /\ tg.maxErrors = 3
  /\ Len(tg.hist) = 5
  /\ tg.errs = <<tg.hist[3], tg.hist[4], tg.hist[5]>>

\* C29: under StopAll the ending of any task, whatever it returned, fires
\* the cancellation source of the other running tasks, so that a Wait in
\* progress returns once they have observed it.
C29_StopAllStopsOthers ==
  /\ [][\A t \in TaskIds :
          QuitStep(t) /\ tg.policy = "StopAll" =>
            tg'.cancelled /\ tsk'[t].pc = "ended"]_vars
  /\ \A c \in Callers :
       (/\ tg.policy = "StopAll"
        /\ tcl[c].pc = "waiting"
        /\ tcl[c].op = "Wait"
        /\ \E t \in TaskIds : tsk[t].pc = "quit")
       ~> (tcl[c].pc = "returned" /\ Unfinished = {})

\* a task returned nil, which fired the source another task was waiting for;
\* both ended and Wait returned, without any call of Stop
C29_Witness ==
  /\ tg.policy = "StopAll"
  /\ tg.firedBy = "quit"
  /\ ~tg.stopCalled
  /\ \E t, u \in TaskIds :
       /\ tsk[t].fn = "nil" /\ tsk[t].pc = "ended"
       /\ tsk[u].fn = "block" /\ tsk[u].pc = "ended"
  /\ \E c \in Callers : tcl[c].pc = "returned" /\ tcl[c].op = "Wait"

\* a call of Stop is in progress
StopInProgress == \E c \in Callers : tcl[c].pc = "waiting" /\ tcl[c].op = "Stop"

\* C30: Stop fires the group's shared cancellation source, which every
\* running task and the exposed Context observe; Stop returns only after
\* every task has ended, and no task is running once Stop has returned.
C30_StopCancelsAndWaits ==
  /\ tg.stopCalled =>
       /\ tg.cancelled
       /\ \A t \in TaskIds :
            tsk[t].pc = "running" /\ tsk[t].fn = "block" =>
              ENABLED TgTaskReturn(t)
  /\ \A c \in Callers :
       tcl[c].pc = "returned" /\ tcl[c].op = "Stop" => Unfinished = {}
  /\ tg.stopCalled /\ ~StopInProgress => Unfinished = {}

\* Stop fired the source a task was waiting for and returned after that task
\* had ended
C30_Witness ==
  /\ tg.firedBy = "Stop"
  /\ \E t \in TaskIds : tsk[t].fn = "block" /\ tsk[t].pc = "ended"
  /\ \E c \in Callers : tcl[c].pc = "returned" /\ tcl[c].op = "Stop"

====
